---------------------------- MODULE Spec2Model ----------------------------
(***************************************************************************)
(* Nylo: server-side ingestion, domain verification and cross-domain       *)
(* correlation (src/server/index.ts, src/unnamed/part_000,                 *)
(* src/examples/server.ts) and the client SDK (src/src/nylo.js).           *)
(*                                                                         *)
(* The module holds one state machine per component; each component has    *)
(* its own next-state relation and specification over the shared           *)
(* variable tuple:                                                         *)
(*   SpecSync   POST /api/tracking/sync-identity                           *)
(*   SpecTrack  POST /api/track and the dedup cache                        *)
(*   SpecDns    /api/domains/* and the verify-cross-domain-token gate      *)
(*   SpecPipe   the client delivery pipeline (sendBatch)                   *)
(*   SpecIdent  the client identity manager                                *)
(***************************************************************************)
EXTENDS Integers, Sequences, FiniteSets, TLC

VARIABLES
    \* ---- sync-identity (server/index.ts 81-161)
    crossDomainMap,   \* req.app.locals.crossDomainMap: fingerprint -> ordered <<key, waiTag>> entries
    syncResp,         \* the last response of POST /api/tracking/sync-identity
    syncAudit,        \* interactions written by storage.createInteraction in the sync route
    syncCalls,        \* number of sync calls handled so far
    firstRecorded,    \* history: fingerprint -> first identifier ever recorded ("" if none)
    sitesNamed        \* history: fingerprint -> set of named sites submitted so far

syncVars == <<crossDomainMap, syncResp, syncAudit, syncCalls, firstRecorded, sitesNamed>>

VARIABLES
    \* ---- /api/track and the dedup cache (server/index.ts 174-275)
    now,              \* Date.now() of the server, in ticks of 30 s
    dedupCache,       \* Map<string, number>: dedup key -> expireAt (-1: no entry)
    interactions,     \* what storage.createInteraction has persisted for /api/track
    trk,              \* the running POST /api/track handlers
    trackReqs,        \* number of /api/track requests received so far
    storageFailed,    \* history: some createInteraction call of /api/track was rejected
    win,              \* history: event -> its current dedup window (first accepted delivery, deliveries since)
    lastExpiry,       \* history: dedup key -> the expireAt last written for it (-1: never), kept over the sweep
    resubs            \* history: the deliveries of keys written before, in the latest run of the event loop

trackVars == <<now, dedupCache, interactions, trk, trackReqs, storageFailed, win,
               lastExpiry, resubs>>

VARIABLES
    \* ---- /api/domains/* (server/index.ts 624-832) and the correlation gate (455-503)
    domainVerifications, \* storage: (domain, customerId) -> DomainVerification record
    dnsTxt,              \* the DNS: domain -> TXT records currently published
    dh,                  \* the running /api/domains/* handlers
    dnsResp,             \* the last response of an /api/domains/* route
    tokenCounter,        \* number of verification tokens minted so far
    dnsCalls,            \* number of /api/domains/* requests received so far
    enforce,             \* the storage implements isDomainVerified for the waitag routes
    tokResp,             \* the last response of POST /api/tracking/verify-cross-domain-token
    issued               \* history: (domain, customerId) -> first token stored for the pair

dnsVars == <<domainVerifications, dnsTxt, dh, dnsResp, tokenCounter, dnsCalls,
             enforce, tokResp, issued>>

VARIABLES
    \* ---- the client delivery pipeline (src/nylo.js 679-800, 842-860, 898)
    eventQueue,           \* state.eventQueue: events waiting to be sent
    retryQueue,           \* state.retryQueue: events of failed batches waiting for their timer
    retryCount,           \* var retryCount
    isCircuitBreakerOpen, \* var isCircuitBreakerOpen
    fetches,              \* the batches of the fetch calls of sendBatch not yet settled
    retryTimers,          \* the pending setTimeout(..., retryDelay) callbacks: due time, and rank among those of that due time
    cooldownTimers,       \* the pending setTimeout(..., 30000) callbacks, by due time
    batchTimer,           \* due time of the next tick of setInterval(sendBatch, batchInterval)
    clock,                \* the time of the page, in seconds
    eventsCreated,        \* number of events queueEvent has created so far
    streak,               \* history: failed sends settled since the last successful one, and when the streak reached maxRetries
    lastSend,             \* history: the streak and the time at the start of the latest fetch
    delays,               \* history: event -> the last two retry delays scheduled for its batch since the breaker last opened
    valve,                \* history: the latest queueEvent that found batchSize * 3 events or more: the queue length, how many events left in a fetch, the breaker
    openedAt              \* history: the time at which the open breaker went from closed to open, -1 when it is closed after its cooldown or never opened

pipeVars == <<eventQueue, retryQueue, retryCount, isCircuitBreakerOpen, fetches,
              retryTimers, cooldownTimers, batchTimer, clock, eventsCreated,
              streak, lastSend, delays, valve, openedAt>>

VARIABLES
    \* ---- the client identity manager (src/nylo.js 271-467, 862-1072)
    tiers,            \* the nylo_wai cookie, localStorage and sessionStorage entries of the identity
    blocked,          \* the tiers whose writes throw in this browser
    stateId,          \* state.sessionId and state.waiTag (0: null)
    anonymousMode,    \* config.anonymousMode
    nyloApi,          \* which window.Nylo the page has installed: none, normal, anonymous
    identPc,          \* the pending verify-cross-domain-token fetch: idle, init, consent
    urlToken,         \* the identity the server decodes from the nylo_token of the URL
    idsIssued,        \* number of identities generateNewIdentity has made so far
    pageLoads,        \* number of page loads so far
    lastGen,          \* history: the latest generateNewIdentity, and whether a tier held a valid record then
    lastStored        \* history: the identity of the latest storeIdentityData call

identVars == <<tiers, blocked, stateId, anonymousMode, nyloApi, identPc, urlToken,
               idsIssued, pageLoads, lastGen, lastStored>>

VARIABLES
    \* ---- calls that keep no state of their own
    txtCheck,         \* the latest verifyDomainOwnership call: its arguments, the records of the zone, its result
    statusResp        \* the last response of GET /api/domains/status

VARIABLES
    \* ---- the wire between the client and the server (src/nylo.js 213-241, 604-688, 739-769; server/index.ts 200-275)
    wireState,        \* state.sessionId, state.waiTag, state.userId of the page
    wireClock,        \* Date.now() of the page, in ms
    wireQueue,        \* state.eventQueue with whole events
    wireCreated,      \* number of events createEvent has made so far
    wireSent,         \* the latest sendBatch: the batch as queued, the events of the body, the status of the response
    wireDedup,        \* the keys of dedupCache
    wireStored        \* the interactions storage.createInteraction has written

wireVars == <<wireState, wireClock, wireQueue, wireCreated, wireSent, wireDedup, wireStored>>

callVars == <<txtCheck, statusResp, wireVars>>

vars == <<syncVars, trackVars, dnsVars, pipeVars, identVars, callVars>>

otherThanSync == <<trackVars, dnsVars, pipeVars, identVars, callVars>>
otherThanTrack == <<syncVars, dnsVars, pipeVars, identVars, callVars>>
otherThanDns == <<syncVars, trackVars, pipeVars, identVars, callVars>>
otherThanPipe == <<syncVars, trackVars, dnsVars, identVars, callVars>>
otherThanIdent == <<syncVars, trackVars, dnsVars, pipeVars, callVars>>

(***************************************************************************)
(* Bounds of the model.                                                    *)
(***************************************************************************)
MaxSyncCalls == 3
MaxTrackReqs == 2
MaxTime == 3
MaxDnsCalls == 4
MaxGateDnsCalls == 2
MaxEvents == 3
MaxOutageEvents == 5
MaxTxtRecords == 2
MaxWireEvents == 3
MaxWireTime == 1
\* config.batchSize on the wire: 25 in the script, here 2
wireBatchSize == 2
MaxIds == 3
MaxLoads == 3
MaxClock == 31
\* config.batchSize, 25 in the source, scaled down with the number of events
batchSize == 1

(***************************************************************************)
(* JavaScript helpers.                                                     *)
(***************************************************************************)
\* a || b on strings: the empty string is falsy
Or2(a, b) == IF a # "" THEN a ELSE b

(***************************************************************************)
(* POST /api/tracking/sync-identity                                        *)
(***************************************************************************)
Customers == {1, 2}

SyncWaiTags == {"", "w1", "w2", "w3"}
SyncUserIds == {"", "u1"}
SyncSites == {"", "unknown", "a", "b"}
BrowserFingerprints == {"", "f1"}
UserAgent == "ua"
ReqIp == "ip"
Fingerprints == {bf \o "-" \o ReqIp : bf \in {UserAgent} \cup (BrowserFingerprints \ {""})}

\* const fingerprint = userAgent + '-' + req.ip, with
\* userAgent = req.body.browserFingerprint || req.headers['user-agent'] || ''
FingerprintOf(bf) == Or2(bf, UserAgent) \o "-" \o ReqIp

\* crossDomainMap[fingerprint][key] = value on a JavaScript object: an existing
\* key keeps its place in the key order, a new key is appended.
HasKey(entry, k) == \E i \in 1..Len(entry) : entry[i].k = k
SetKey(entry, k, v) ==
    IF HasKey(entry, k)
    THEN [i \in 1..Len(entry) |-> IF entry[i].k = k THEN [k |-> k, v |-> v] ELSE entry[i]]
    ELSE Append(entry, [k |-> k, v |-> v])

\* const hasMultipleSites = siteKeys.length >= 2 (every key of an entry is
\* built as currentSite + 'WaiTag', so the endsWith filter keeps them all)
HasMultipleSitesAtLeastOne(entry) == Len(entry) >= 1
HasMultipleSites(entry) == Len(entry) >= 2

\* const canonicalWaiTag = entry[siteKeys[0]]
CanonicalWaiTag(entry) == entry[1].v

\* customer lookup of the sync route: getCustomer(parseInt(customerId)) (no API key)
SyncCustomer(customerId) == IF customerId \in Customers THEN customerId ELSE 0

SyncIdentity(rawWaiTag, userId, rawSite, bf, customerId) ==
    LET waiTag == IF rawWaiTag # "" THEN rawWaiTag
                  ELSE Or2(userId, "wai-temp-" \o ToString(syncCalls))
        currentSite == IF rawSite = "" THEN "unknown" ELSE rawSite
        fingerprint == FingerprintOf(bf)
        recorded == currentSite # "unknown"
        entry == IF recorded
                 THEN SetKey(crossDomainMap[fingerprint], currentSite \o "WaiTag", waiTag)
                 ELSE crossDomainMap[fingerprint]
        customer == SyncCustomer(customerId)
    IN  /\ syncCalls < MaxSyncCalls
        /\ UNCHANGED otherThanSync
        /\ syncCalls' = syncCalls + 1
        /\ crossDomainMap' = [crossDomainMap EXCEPT ![fingerprint] = entry]
        /\ firstRecorded' = IF recorded /\ firstRecorded[fingerprint] = ""
                            THEN [firstRecorded EXCEPT ![fingerprint] = waiTag]
                            ELSE firstRecorded
        /\ sitesNamed' = IF recorded
                         THEN [sitesNamed EXCEPT ![fingerprint] = @ \cup {currentSite}]
                         ELSE sitesNamed
        /\ IF HasMultipleSites(entry)
           THEN /\ syncAudit' = IF customer # 0
                                THEN Append(syncAudit,
                                       [customerId |-> customer,
                                        userId |-> CanonicalWaiTag(entry),
                                        interactionType |-> "cross_domain_identity_match",
                                        matchedBy |-> "fingerprint"])
                                ELSE syncAudit
                /\ syncResp' = [op |-> "sync", shared |-> TRUE,
                                waiTag |-> CanonicalWaiTag(entry), fp |-> fingerprint,
                                site |-> currentSite]
           ELSE /\ syncAudit' = syncAudit
                /\ syncResp' = [op |-> "sync", shared |-> FALSE,
                                waiTag |-> waiTag, fp |-> fingerprint,
                                site |-> currentSite]

SyncInit ==
    /\ crossDomainMap = [f \in Fingerprints |-> <<>>]
    /\ syncResp = [op |-> "none", shared |-> FALSE, waiTag |-> "", fp |-> "", site |-> ""]
    /\ syncAudit = <<>>
    /\ syncCalls = 0
    /\ firstRecorded = [f \in Fingerprints |-> ""]
    /\ sitesNamed = [f \in Fingerprints |-> {}]

SyncCall ==
    \E w \in SyncWaiTags, u \in SyncUserIds, s \in SyncSites,
       bf \in BrowserFingerprints, c \in {0, 1} :
        SyncIdentity(w, u, s, bf, c)

NextSync == SyncCall

(***************************************************************************)
(* POST /api/track and the dedup cache                                     *)
(***************************************************************************)
\* parseInt(process.env.TRACKING_DEDUP_WINDOW_SECONDS || '60', 10) * 1000,
\* here 2 ticks of 30 s
DEDUP_WINDOW_MS == 2

Handlers == {1, 2}

\* A JSON timestamp: absent, a number or a string
NoTs == [k |-> "none", n |-> 0, s |-> ""]
NumTs(n) == [k |-> "num", n |-> n, s |-> ""]
StrTs(s) == [k |-> "str", n |-> 0, s |-> s]

Ev(sessionId, eventType, timestamp, domain) ==
    [sessionId |-> sessionId, eventType |-> eventType,
     timestamp |-> timestamp, domain |-> domain]

\* the events a client may submit
Events ==
    { Ev("a", "b:c", NoTs, "example.com"),
      Ev("a:b", "c", NumTs(0), "example.com"),
      Ev("a", "b:c", StrTs("5"), "example.com"),
      Ev("a", "b:c", NoTs, "") }

\* timestamp ? String(timestamp) : ''
EventTimestampStr(ts) ==
    CASE ts.k = "none" -> ""
      [] ts.k = "num" -> IF ts.n = 0 THEN "" ELSE ToString(ts.n)
      [] ts.k = "str" -> ts.s

\* `${sessionId}:${eventType}:${eventTimestampStr}`; the SHA-256 digest of it
\* is taken as injective, so the string stands for the key
DedupKey(e) ==
    e.sessionId \o ":" \o e.eventType \o ":" \o EventTimestampStr(e.timestamp)

DedupKeys == {DedupKey(e) : e \in Events}

\* if (!sessionId || !eventType || !domain) continue;
HasRequiredFields(e) == e.sessionId # "" /\ e.eventType # "" /\ e.domain # ""

\* if (dedupCache.has(dedupKey)) { if (now < expireAt) continue; }
IsDuplicateUntilAfterExpiry(cache, key, t) == cache[key] # -1 /\ t <= cache[key]
IsDuplicateNever(cache, key, t) == FALSE
IsDuplicate(cache, key, t) == cache[key] # -1 /\ t < cache[key]

\* the for loop from position i up to the next storage.createInteraction call:
\* the index of the first event that is neither incomplete nor a duplicate
RECURSIVE NextAccepted(_, _, _, _)
NextAccepted(evs, i, cache, t) ==
    IF i > Len(evs) THEN i
    ELSE IF HasRequiredFields(evs[i]) /\ ~IsDuplicate(cache, DedupKey(evs[i]), t)
         THEN i
         ELSE NextAccepted(evs, i + 1, cache, t)

\* history: a delivery of e at time t falls in e's open window
InWindow(w, e, t) == w[e].first # -1 /\ t < w[e].first + DEDUP_WINDOW_MS

\* history: the deliveries evs[i..j-1] were skipped, evs[j] (if any) accepted
\* (deliveries are counted up to 3)
RECURSIVE Delivered(_, _, _, _, _)
Delivered(w, evs, i, j, t) ==
    IF i > Len(evs) \/ i > j THEN w
    ELSE LET e == evs[i]
             w2 == IF ~HasRequiredFields(e) THEN w
                   ELSE IF InWindow(w, e, t)
                        THEN [w EXCEPT ![e].n = IF @ < 3 THEN @ + 1 ELSE @]
                        ELSE IF i = j
                             THEN [w EXCEPT ![e] = [first |-> t, n |-> 1]]
                             ELSE [w EXCEPT ![e] = [first |-> -1, n |-> 0]]
         IN  Delivered(w2, evs, i + 1, j, t)

IdleHandler == [pc |-> "idle", events |-> <<>>, i |-> 0, processedCount |-> 0,
                at |-> 0, status |-> 0]

\* Runs handler h from position i of its events to the next await or to the
\* response: dedupCache.set(dedupKey, now + DEDUP_WINDOW_MS), then the call of
\* storage.createInteraction suspends the handler.
RunLoop(h, evs, i, processedCount) ==
    LET j == NextAccepted(evs, i, dedupCache, now)
        last == IF j <= Len(evs) THEN j ELSE Len(evs)
    IN  /\ win' = Delivered(win, evs, i, j, now)
        /\ lastExpiry' = IF j <= Len(evs)
                         THEN [lastExpiry EXCEPT ![DedupKey(evs[j])] = now + DEDUP_WINDOW_MS]
                         ELSE lastExpiry
        /\ resubs' = {[h |-> h, e |-> evs[k], t |-> now,
                       expiry |-> lastExpiry[DedupKey(evs[k])],
                       swept |-> dedupCache[DedupKey(evs[k])] = -1,
                       accepted |-> k = j,
                       newExpiry |-> IF k = j THEN now + DEDUP_WINDOW_MS
                                     ELSE dedupCache[DedupKey(evs[k])]] :
                        k \in {x \in i..last : /\ HasRequiredFields(evs[x])
                                                /\ lastExpiry[DedupKey(evs[x])] # -1}}
        /\ IF j <= Len(evs)
           THEN /\ dedupCache' = [dedupCache EXCEPT ![DedupKey(evs[j])] = now + DEDUP_WINDOW_MS]
                /\ trk' = [trk EXCEPT ![h] = [pc |-> "await", events |-> evs, i |-> j,
                                              processedCount |-> processedCount,
                                              at |-> now, status |-> 0]]
           ELSE /\ dedupCache' = dedupCache
                /\ trk' = [trk EXCEPT ![h] = [pc |-> "done", events |-> evs, i |-> j,
                                              processedCount |-> processedCount,
                                              at |-> 0, status |-> 200]]

\* app.post("/api/track"): the request arrives and is served by the first
\* handler that is not suspended (handlers are interchangeable)
TrackStart(h, evs) ==
    /\ trk[h].pc \in {"idle", "done"}
    /\ \A g \in Handlers : g < h => trk[g].pc = "await"
    /\ trackReqs < MaxTrackReqs
    /\ trackReqs' = trackReqs + 1
    /\ IF Len(evs) = 0
       THEN /\ trk' = [trk EXCEPT ![h] = [pc |-> "done", events |-> evs, i |-> 0,
                                          processedCount |-> 0, at |-> 0,
                                          status |-> 400]]
            /\ UNCHANGED <<dedupCache, win, lastExpiry, resubs>>
       ELSE RunLoop(h, evs, 1, 0)
    /\ UNCHANGED <<now, interactions, storageFailed>>
    /\ UNCHANGED otherThanTrack

\* processedCount++ after the await, inside the try block
CountedAlways(processedCount, ok) == processedCount + 1
Counted(processedCount, ok) == processedCount + (IF ok THEN 1 ELSE 0)

\* await storage.createInteraction(...) settles: processedCount++ on success,
\* the catch block on rejection; the loop goes on with the next event
TrackStored(h, ok) ==
    /\ trk[h].pc = "await"
    /\ LET e == trk[h].events[trk[h].i]
       IN  interactions' =
             IF ok
             THEN Append(interactions,
                    [sessionId |-> e.sessionId, interactionType |-> e.eventType,
                     domain |-> e.domain, at |-> trk[h].at, src |-> e])
             ELSE interactions
    /\ storageFailed' = (storageFailed \/ ~ok)
    /\ RunLoop(h, trk[h].events, trk[h].i + 1,
               Counted(trk[h].processedCount, ok))
    /\ UNCHANGED <<now, trackReqs>>
    /\ UNCHANGED otherThanTrack

\* if (now > expireAt) dedupCache.delete(key);
ExpiredAlways(expireAt, t) == TRUE
Expired(expireAt, t) == t > expireAt

\* function cleanupDedupCache(), run by setInterval
cleanupDedupCache ==
    /\ \E k \in DedupKeys : dedupCache[k] # -1
    /\ dedupCache' = [k \in DedupKeys |->
                        IF dedupCache[k] # -1 /\ Expired(dedupCache[k], now) THEN -1
                        ELSE dedupCache[k]]
    /\ UNCHANGED <<now, interactions, trk, trackReqs, storageFailed, win, lastExpiry,
                   resubs>>
    /\ UNCHANGED otherThanTrack

\* the server clock advances
TrackTick ==
    /\ now < MaxTime
    /\ now' = now + 1
    /\ UNCHANGED <<dedupCache, interactions, trk, trackReqs, storageFailed, win,
                   lastExpiry, resubs>>
    /\ UNCHANGED otherThanTrack

\* request bodies: no event, a single event, or an events array of two (the
\* same event twice, two events of one dedup key, a skipped event first)
Batches ==
    {<<>>} \cup {<<e>> : e \in Events}
        \cup {<<Ev("a", "b:c", NoTs, "example.com"), Ev("a", "b:c", NoTs, "example.com")>>,
              <<Ev("a", "b:c", NoTs, "example.com"), Ev("a:b", "c", NumTs(0), "example.com")>>,
              <<Ev("a", "b:c", NoTs, ""), Ev("a", "b:c", NoTs, "example.com")>>}

TrackInit ==
    /\ now = 0
    /\ dedupCache = [k \in DedupKeys |-> -1]
    /\ interactions = <<>>
    /\ trk = [h \in Handlers |-> IdleHandler]
    /\ trackReqs = 0
    /\ storageFailed = FALSE
    /\ win = [e \in Events |-> [first |-> -1, n |-> 0]]
    /\ lastExpiry = [k \in DedupKeys |-> -1]
    /\ resubs = {}

TrackRequest == \E h \in Handlers, evs \in Batches : TrackStart(h, evs)
TrackStorageSettles == \E h \in Handlers, ok \in BOOLEAN : TrackStored(h, ok)

NextTrack ==
    \/ TrackRequest
    \/ TrackStorageSettles
    \/ cleanupDedupCache
    \/ TrackTick

(***************************************************************************)
(* DNS domain verification: utils (unnamed/part_000 133-228), the example  *)
(* storage (examples/server.ts 20-79) and the routes                       *)
(***************************************************************************)
\* a domain is the sequence of its labels
Domains == {<<"example", "com">>, <<"blog", "example", "com">>}
Pairs == Domains \X Customers

RECURSIVE DomainName(_)
DomainName(d) ==
    IF Len(d) = 0 THEN ""
    ELSE IF Len(d) = 1 THEN d[1] ELSE d[1] \o "." \o DomainName(Tail(d))

\* request inputs: the domain as sent (plain, upper-cased, malformed or absent)
RawDomains ==
    {[name |-> d, form |-> "plain"] : d \in Domains}
        \cup {[name |-> <<"example", "com">>, form |-> "upper"],
              [name |-> <<"example", "com">>, form |-> "invalid"]}
\* the x-api-key header and the customerId of the body, as sent together
Credentials == {<<"", 0>>, <<"", 1>>, <<"", 2>>, <<"key2", 0>>, <<"key2", 1>>, <<"bogus", 1>>}

\* validateDomain: trimmed and lower-cased, <<>> when it throws
validateDomain(raw) ==
    IF raw.form = "invalid" THEN <<>> ELSE raw.name

\* customers.find(c => c.apiKey === apiKey), customers.find(c => c.id === id)
getCustomerByApiKey(apiKey) == IF apiKey = "key2" THEN 2 ELSE 0
getCustomer(id) == IF id \in Customers THEN id ELSE 0

\* if (apiKey) customer = ...; if (!customer && rawCustomerId) customer = ...
LookupCustomer(apiKey, rawCustomerId) ==
    LET byKey == IF apiKey # "" THEN getCustomerByApiKey(apiKey) ELSE 0
    IN  IF byKey # 0 THEN byKey
        ELSE IF rawCustomerId # 0 THEN getCustomer(rawCustomerId) ELSE 0

\* verifiedAt and lastCheckedAt hold new Date() of the write that set them,
\* modelled as the number of that check among the checks written to the
\* record (0: never set)
NoVerification ==
    [exists |-> FALSE, token |-> "", status |-> "none", verifiedAt |-> 0,
     lastCheckedAt |-> 0, failureReason |-> ""]

\* storage.getDomainVerification
getDomainVerification(d, c) == domainVerifications[<<d, c>>]

\* storage.isDomainVerified: record?.status === 'verified'
isDomainVerifiedAnyCustomer(d, c) ==
    \E c2 \in Customers :
        <<d, c2>> \in Pairs /\ domainVerifications[<<d, c2>>].status = "verified"
isDomainVerified(d, c) ==
    <<d, c>> \in Pairs /\ domainVerifications[<<d, c>>].status = "verified"

\* storage.createDomainVerification: Map.set of a new record
createDomainVerification(d, c, token) ==
    [domainVerifications EXCEPT ![<<d, c>>] =
        [exists |-> TRUE, token |-> token, status |-> "pending", verifiedAt |-> 0,
         lastCheckedAt |-> 0, failureReason |-> ""]]

\* storage.updateDomainVerification: { ...existing, ...data }, nothing when absent
updateVerified(d, c) ==
    LET r == domainVerifications[<<d, c>>]
    IN  IF ~r.exists THEN domainVerifications
        ELSE [domainVerifications EXCEPT ![<<d, c>>] =
                [r EXCEPT !.status = "verified", !.verifiedAt = r.lastCheckedAt + 1,
                          !.lastCheckedAt = r.lastCheckedAt + 1]]
updateFailed(d, c, reason) ==
    LET r == domainVerifications[<<d, c>>]
    IN  IF ~r.exists THEN domainVerifications
        ELSE [domainVerifications EXCEPT ![<<d, c>>] =
                [r EXCEPT !.status = "failed", !.lastCheckedAt = r.lastCheckedAt + 1,
                          !.failureReason = reason]]

TXT_RECORD_PREFIX == "nylo-verify="
getDnsRecordValue(token) == TXT_RECORD_PREFIX \o token

\* crypto.randomBytes(16).toString('hex'): a token never minted before
generateVerificationToken == "t" \o ToString(tokenCounter + 1)

\* a TXT record as published: its joined text, exact, padded with whitespace
\* or in upper case
TxtForms == {"exact", "padded", "upper"}
Trim(r) == IF r.form = "padded" THEN [r EXCEPT !.form = "exact"] ELSE r

\* what resolver.resolveTxt calls back with
DnsOutcomes == {"answer", "ESERVFAIL", "timeout"}

verifyDomainOwnership(domain, expectedToken, outcome) ==
    LET expectedValue == [text |-> TXT_RECORD_PREFIX \o expectedToken, form |-> "exact"]
        records == dnsTxt[domain]
    IN  IF outcome = "timeout"
        THEN [verified |-> FALSE, error |-> "DNS lookup timed out"]
        ELSE IF outcome # "answer"
        THEN [verified |-> FALSE, error |-> "DNS lookup failed: " \o outcome]
        ELSE IF records = {}
        THEN [verified |-> FALSE,
              error |-> "No TXT records found for " \o DomainName(domain)]
        ELSE IF \E r \in records : Trim(r) = Trim(expectedValue)
        THEN [verified |-> TRUE, error |-> ""]
        ELSE [verified |-> FALSE,
              error |-> "TXT record not found. Found TXT record(s) but none matched."]

checkSubdomainOwnership(subdomain, subdomainToken, parentDomainVerified, outcome) ==
    IF verifyDomainOwnership(subdomain, subdomainToken, outcome).verified
    THEN [verified |-> TRUE, method |-> "subdomain_txt", error |-> ""]
    ELSE IF parentDomainVerified
    THEN [verified |-> TRUE, method |-> "parent_domain_verified", error |-> ""]
    ELSE [verified |-> FALSE, method |-> "none",
          error |-> "Subdomain " \o DomainName(subdomain)
                    \o " has no TXT record and parent domain is not verified"]

\* parts.length <= 2 ? null : parts.slice(1).join('.')
extractParentDomain(domain) == IF Len(domain) <= 2 THEN <<>> ELSE Tail(domain)

DnsHandlers == {1, 2}

\* what a handler keeps of the record it read: existing / verification
NoSnapshot == [exists |-> FALSE, token |-> "", status |-> "none"]
Snapshot(r) == [exists |-> r.exists, token |-> r.token, status |-> r.status]

\* parentWas is history: what the storage held for the parent when
\* isDomainVerified was called
IdleDns ==
    [pc |-> "idle", op |-> "", domain |-> <<>>, customer |-> 0,
     existing |-> NoSnapshot, parentVerified |-> FALSE, parentWas |-> FALSE]

\* res.status(http).json(...): the handler ends, dnsResp keeps its answer
\* history fields: checked (the answer follows a DNS lookup), was (the status
\* the handler had read), parentWas, txtPublished (the lookup answered with a
\* TXT record equal to nylo-verify=<the token the handler had read>)
NoDnsResp ==
    [op |-> "", domain |-> <<>>, customer |-> 0, http |-> 0, status |-> "",
     token |-> "", method |-> "", checked |-> FALSE, was |-> "none",
     parentWas |-> FALSE, txtPublished |-> FALSE]
DnsRespond(h, op, d, c, http, status, token, method) ==
    /\ dh' = [dh EXCEPT ![h] = IdleDns]
    /\ dnsResp' = [NoDnsResp EXCEPT !.op = op, !.domain = d, !.customer = c,
                                    !.http = http, !.status = status,
                                    !.token = token, !.method = method,
                                    !.was = dh[h].existing.status]

\* Both routes start alike: validateDomain, the customer lookup, then
\* await storage.getDomainVerification(validDomain, customer.id)
DnsStart(h, op, rawDomain, apiKey, rawCustomerId) ==
    LET validDomain == validateDomain(rawDomain)
        customer == LookupCustomer(apiKey, rawCustomerId)
    IN  /\ dh[h].pc = "idle"
        /\ \A g \in DnsHandlers : g < h => dh[g].pc # "idle"
        /\ dnsCalls < MaxDnsCalls
        /\ dnsCalls' = dnsCalls + 1
        /\ IF validDomain = <<>>
           THEN DnsRespond(h, op, validDomain, 0, 400, "", "", "")
           ELSE IF customer = 0
           THEN DnsRespond(h, op, validDomain, 0, 404, "", "", "")
           ELSE /\ dh' = [dh EXCEPT ![h] =
                            [pc |-> "read", op |-> op, domain |-> validDomain,
                             customer |-> customer,
                             existing |-> Snapshot(getDomainVerification(validDomain, customer)),
                             parentVerified |-> FALSE, parentWas |-> FALSE]]
                /\ UNCHANGED dnsResp
        /\ UNCHANGED <<domainVerifications, dnsTxt, tokenCounter, enforce,
                       tokResp, issued>>
        /\ UNCHANGED otherThanDns

\* if (existing && existing.status === 'verified') return 'Domain is already verified'
ExistingVerifiedNever(existing) == FALSE
ExistingVerified(existing) == existing.exists /\ existing.status = "verified"

\* POST /api/domains/request-verification, after the read of the record
RequestVerification(h) ==
    LET d == dh[h].domain
        c == dh[h].customer
        existing == dh[h].existing
        token == IF existing.exists /\ existing.token # "" THEN existing.token
                 ELSE generateVerificationToken
    IN  /\ dh[h].pc = "read" /\ dh[h].op = "request"
        /\ IF ExistingVerified(existing)
           THEN /\ DnsRespond(h, "request", d, c, 200, "verified", "", "")
                /\ UNCHANGED <<domainVerifications, tokenCounter, issued>>
           ELSE /\ tokenCounter' = IF existing.exists /\ existing.token # ""
                                   THEN tokenCounter ELSE tokenCounter + 1
                /\ domainVerifications' =
                     IF ~existing.exists THEN createDomainVerification(d, c, token)
                     ELSE domainVerifications
                /\ issued' = IF ~existing.exists /\ issued[<<d, c>>] = ""
                             THEN [issued EXCEPT ![<<d, c>>] = token] ELSE issued
                /\ DnsRespond(h, "request", d, c, 200, "pending", token, "")
        /\ UNCHANGED <<dnsTxt, dnsCalls, enforce, tokResp>>
        /\ UNCHANGED otherThanDns

\* if (verification.status === 'verified') return 'Domain is already verified'
AlreadyVerifiedOrFailed(verification) == verification.status \in {"verified", "failed"}
AlreadyVerified(verification) == verification.status = "verified"

\* if (!verification) return res.status(404): 'No verification request found'
NoRequestFoundNever(verification) == FALSE
NoRequestFound(verification) == ~verification.exists

\* POST /api/domains/verify, after the read of the record: 404, the verified
\* short cut, or await storage.isDomainVerified(parentDomain, customer.id)
VerifyRead(h) ==
    LET d == dh[h].domain
        c == dh[h].customer
        verification == dh[h].existing
        parentDomain == extractParentDomain(d)
    IN  /\ dh[h].pc = "read" /\ dh[h].op = "verify"
        /\ IF NoRequestFound(verification)
           THEN DnsRespond(h, "verify", d, c, 404, "", "", "")
           ELSE IF AlreadyVerified(verification)
           THEN DnsRespond(h, "verify", d, c, 200, "verified", "", "")
           ELSE /\ dh' = [dh EXCEPT ![h] =
                            [@ EXCEPT !.pc = "lookup",
                                      !.parentVerified =
                                         IF parentDomain # <<>>
                                         THEN isDomainVerified(parentDomain, c)
                                         ELSE FALSE,
                                      !.parentWas =
                                         /\ <<parentDomain, c>> \in Pairs
                                         /\ domainVerifications[<<parentDomain, c>>].status
                                               = "verified"]]
                /\ UNCHANGED dnsResp
        /\ UNCHANGED <<domainVerifications, dnsTxt, tokenCounter, dnsCalls, enforce, tokResp, issued>>
        /\ UNCHANGED otherThanDns

\* POST /api/domains/verify, when the DNS lookup has settled: the result is
\* written with storage.updateDomainVerification and answered
VerifyLookup(h, outcome) ==
    LET d == dh[h].domain
        c == dh[h].customer
        verification == dh[h].existing
        parentDomain == extractParentDomain(d)
        own == verifyDomainOwnership(d, verification.token, outcome)
        result == IF parentDomain # <<>>
                  THEN checkSubdomainOwnership(d, verification.token,
                                               dh[h].parentVerified, outcome)
                  ELSE own @@ [method |-> "direct_txt"]
        published == /\ outcome = "answer"
                     /\ [text |-> "nylo-verify=" \o verification.token, form |-> "exact"]
                           \in dnsTxt[d]
        answer == [op |-> "verify", domain |-> d, customer |-> c, http |-> 200,
                   status |-> "", token |-> "", method |-> "", checked |-> TRUE,
                   was |-> verification.status, parentWas |-> dh[h].parentWas,
                   txtPublished |-> published]
    IN  /\ dh[h].pc = "lookup"
        /\ dh' = [dh EXCEPT ![h] = IdleDns]
        /\ IF result.verified
           THEN /\ domainVerifications' = updateVerified(d, c)
                /\ dnsResp' = [answer EXCEPT !.status = "verified",
                                               !.method = result.method]
           ELSE /\ domainVerifications' = updateFailed(d, c, result.error)
                /\ dnsResp' = [answer EXCEPT !.status = "failed",
                                               !.token = verification.token]
        /\ UNCHANGED <<dnsTxt, tokenCounter, dnsCalls, enforce, tokResp, issued>>
        /\ UNCHANGED otherThanDns

\* the owner of a domain sets its TXT record to the value handed out for the
\* (domain, customer) record
PublishTxt(d, c) ==
    LET value == [text |-> getDnsRecordValue(domainVerifications[<<d, c>>].token),
                  form |-> "exact"]
    IN  /\ domainVerifications[<<d, c>>].exists
        /\ dnsTxt[d] # {value}
        /\ dnsTxt' = [dnsTxt EXCEPT ![d] = {value}]
        /\ UNCHANGED <<domainVerifications, dh, dnsResp, tokenCounter, dnsCalls, enforce, tokResp, issued>>
        /\ UNCHANGED otherThanDns

(***************************************************************************)
(* GET /api/domains/status                                                 *)
(***************************************************************************)
\* verification?.status || 'unverified'
StatusOfOrPending(verification) ==
    IF verification.exists THEN verification.status ELSE "pending"
StatusOf(verification) ==
    IF verification.exists THEN verification.status ELSE "unverified"

\* verification?.verifiedAt || null, verification?.lastCheckedAt || null (0: null)
OrNull(verification, at) == IF verification.exists THEN at ELSE 0

NoStatusResp ==
    [http |-> 0, domain |-> <<>>, customer |-> 0, status |-> "", verifiedAt |-> 0,
     lastCheckedAt |-> 0]

\* the whole route: the response is built from the record read last
DomainStatus(rawDomain, apiKey, rawCustomerId) ==
    LET validDomain == validateDomain(rawDomain)
        customer == LookupCustomer(apiKey, rawCustomerId)
        verification == getDomainVerification(validDomain, customer)
    IN  /\ statusResp' =
              IF validDomain = <<>>
              THEN [NoStatusResp EXCEPT !.http = 400]
              ELSE IF customer = 0
              THEN [NoStatusResp EXCEPT !.http = 404, !.domain = validDomain]
              ELSE [http |-> 200, domain |-> validDomain, customer |-> customer,
                    status |-> StatusOf(verification),
                    verifiedAt |-> OrNull(verification, verification.verifiedAt),
                    lastCheckedAt |-> OrNull(verification, verification.lastCheckedAt)]
        /\ UNCHANGED <<syncVars, trackVars, dnsVars, pipeVars, identVars, txtCheck, wireVars>>

StatusInit == statusResp = NoStatusResp

(***************************************************************************)
(* verifyDomainOwnership on its own: any small set of TXT records in the   *)
(* zone of example.com, any expected token, any outcome of the resolver.   *)
(***************************************************************************)
\* the joined text of a TXT record, and how it is written in the zone
TxtTexts == {getDnsRecordValue("t1"), getDnsRecordValue("t2"), "v=spf1 -all"}
TxtRecords == [text : TxtTexts, form : TxtForms]
TxtRecordSets == {rs \in SUBSET TxtRecords : Cardinality(rs) <= MaxTxtRecords}

\* the owner of the zone edits its TXT records
TxtZoneChanges(d, records) ==
    /\ dnsTxt[d] # records
    /\ dnsTxt' = [dnsTxt EXCEPT ![d] = records]
    /\ UNCHANGED <<domainVerifications, dh, dnsResp, tokenCounter, dnsCalls, enforce,
                   tokResp, issued>>
    /\ UNCHANGED otherThanDns

NoTxtCheck ==
    [domain |-> <<>>, expectedToken |-> "", outcome |-> "", records |-> {},
     result |-> [verified |-> FALSE, error |-> ""]]

\* await verifyDomainOwnership(domain, expectedToken)
TxtLookup(d, expectedToken, outcome) ==
    /\ txtCheck' = [domain |-> d, expectedToken |-> expectedToken, outcome |-> outcome,
                    records |-> dnsTxt[d],
                    result |-> verifyDomainOwnership(d, expectedToken, outcome)]
    /\ UNCHANGED <<syncVars, trackVars, dnsVars, pipeVars, identVars, statusResp, wireVars>>

TxtInit == txtCheck = NoTxtCheck
TxtZone == \E records \in TxtRecordSets : TxtZoneChanges(<<"example", "com">>, records)
TxtCall ==
    \E t \in {"t1", "t2"}, o \in DnsOutcomes : TxtLookup(<<"example", "com">>, t, o)
NextTxt ==
    \/ TxtZone
    \/ TxtCall

(***************************************************************************)
(* POST /api/tracking/verify-cross-domain-token                            *)
(***************************************************************************)
\* "Tokens expire after 5 minutes" (minutes)
TOKEN_TTL_MIN == 5

\* a token as sent: absent, not base64 JSON, or the JSON it decodes to; age is
\* the time in minutes since the token was issued, which the body does not carry
NoToken == [raw |-> "", waiTag |-> "", sessionId |-> "", age |-> 0]
GarbageToken == [raw |-> "garbage", waiTag |-> "", sessionId |-> "", age |-> 0]
JsonToken(w, sid, age) == [raw |-> "json", waiTag |-> w, sessionId |-> sid, age |-> age]
Tokens ==
    {NoToken, GarbageToken, JsonToken("w1", "s1", 0), JsonToken("", "s1", 0),
     JsonToken("w1", "s1", TOKEN_TTL_MIN + 1)}

\* a customerId as sent: absent, a number or a numeric string; n is what
\* parseInt makes of it
GateCustomerIds ==
    {[k |-> "none", n |-> 0], [k |-> "num", n |-> 0], [k |-> "num", n |-> 1],
     [k |-> "str", n |-> 2]}
Truthy(cid) == cid.k = "str" \/ (cid.k = "num" /\ cid.n # 0)

\* the domain of the body is used as sent: only the plain form equals a stored key
GateDomains ==
    {[name |-> d, form |-> "plain"] : d \in Domains}
        \cup {[name |-> <<"example", "com">>, form |-> "upper"],
              [name |-> <<>>, form |-> "plain"]}
GateVerified(domain, cid) ==
    domain.form = "plain" /\ isDomainVerified(domain.name, cid.n)

NoIdentity == [waiTag |-> "", sessionId |-> ""]

\* JSON.parse(Buffer.from(token, 'base64')) and decoded.waiTag && decoded.sessionId
DecodeTokenSessionOnly(token) ==
    IF token.raw = "json" /\ token.sessionId # ""
    THEN [success |-> TRUE,
          identity |-> [waiTag |-> token.waiTag, sessionId |-> token.sessionId]]
    ELSE [success |-> FALSE, identity |-> NoIdentity]
DecodeToken(token) ==
    IF token.raw = "json" /\ token.waiTag # "" /\ token.sessionId # ""
    THEN [success |-> TRUE,
          identity |-> [waiTag |-> token.waiTag, sessionId |-> token.sessionId]]
    ELSE [success |-> FALSE, identity |-> NoIdentity]

\* if (storage.isDomainVerified && domain && customerId) { ... 403 }
GateBlocksDecodeFirst(token, domain, cid) ==
    /\ ~DecodeToken(token).success
    /\ enforce /\ domain.name # <<>> /\ Truthy(cid)
    /\ ~GateVerified(domain, cid)
GateBlocks(token, domain, cid) ==
    /\ enforce /\ domain.name # <<>> /\ Truthy(cid)
    /\ ~GateVerified(domain, cid)

VerifyCrossDomainToken(token, domain, cid) ==
    LET req == [token |-> token, domain |-> domain, customerId |-> cid,
                \* history: the storage held a verified record for the pair as sent
                pairWas |-> /\ domain.form = "plain"
                            /\ <<domain.name, cid.n>> \in Pairs
                            /\ domainVerifications[<<domain.name, cid.n>>].status
                                  = "verified",
                \* history: the storage held a verified record for the parent
                \* of the domain as sent
                parentWas |-> /\ domain.form = "plain"
                              /\ <<extractParentDomain(domain.name), cid.n>> \in Pairs
                              /\ domainVerifications[<<extractParentDomain(domain.name),
                                                       cid.n>>].status = "verified"]
    IN  /\ tokResp' =
              IF token.raw = ""
              THEN [req |-> req, http |-> 400, success |-> FALSE, identity |-> NoIdentity]
              ELSE IF GateBlocks(token, domain, cid)
              THEN [req |-> req, http |-> 403, success |-> FALSE, identity |-> NoIdentity]
              ELSE [req |-> req, http |-> 200] @@ DecodeToken(token)
        /\ UNCHANGED <<domainVerifications, dnsTxt, dh, dnsResp, tokenCounter, dnsCalls,
                       enforce, issued>>
        /\ UNCHANGED otherThanDns

DnsInitStorage ==
    /\ domainVerifications = [p \in Pairs |-> NoVerification]
    /\ dnsTxt = [d \in Domains |-> {}]
    /\ dh = [h \in DnsHandlers |-> IdleDns]
    /\ dnsResp = NoDnsResp
    /\ tokenCounter = 0
    /\ dnsCalls = 0
    /\ tokResp = [req |-> [token |-> NoToken, domain |-> [name |-> <<>>, form |-> "plain"],
                           customerId |-> [k |-> "none", n |-> 0], pairWas |-> FALSE,
                           parentWas |-> FALSE],
                  http |-> 0, success |-> FALSE, identity |-> NoIdentity]
    /\ issued = [p \in Pairs |-> ""]

\* the example storage implements isDomainVerified
DnsInit == DnsInitStorage /\ enforce = TRUE

\* the requests sent: customer 2 owns example.com only
DnsRequests ==
    {r \in RawDomains \X Credentials :
        LookupCustomer(r[2][1], r[2][2]) = 2 => r[1].name = <<"example", "com">>}
DnsRequest ==
    \E h \in DnsHandlers, op \in {"request", "verify"}, r \in DnsRequests :
        DnsStart(h, op, r[1], r[2][1], r[2][2])
DnsRequestVerification == \E h \in DnsHandlers : RequestVerification(h)
DnsVerifyRead == \E h \in DnsHandlers : VerifyRead(h)
DnsVerifyLookup == \E h \in DnsHandlers, o \in DnsOutcomes : VerifyLookup(h, o)
DnsPublish == \E d \in Domains, c \in Customers : PublishTxt(d, c)
TokenVerify ==
    \E t \in Tokens, d \in GateDomains, c \in GateCustomerIds :
        VerifyCrossDomainToken(t, d, c)

NextDns ==
    \/ DnsRequest
    \/ DnsRequestVerification
    \/ DnsVerifyRead
    \/ DnsVerifyLookup
    \/ DnsPublish

\* the correlation gate next to the verification routes: few verification
\* requests for example.com, sent one after the other, and every
\* verify-cross-domain-token request
GateDnsRequest ==
    /\ dnsCalls < MaxGateDnsCalls
    /\ \A h \in DnsHandlers : dh[h].pc = "idle"
    /\ \E h \in DnsHandlers, op \in {"request", "verify"}, c \in Customers :
          DnsStart(h, op, [name |-> <<"example", "com">>, form |-> "plain"], "", c)

NextGate ==
    \/ GateDnsRequest
    \/ DnsRequestVerification
    \/ DnsVerifyRead
    \/ DnsVerifyLookup
    \/ DnsPublish
    \/ TokenVerify

\* the status route next to the same few verification requests
StatusCall == \E r \in DnsRequests : DomainStatus(r[1], r[2][1], r[2][2])
NextStatus ==
    \/ GateDnsRequest
    \/ DnsRequestVerification
    \/ DnsVerifyRead
    \/ DnsVerifyLookup
    \/ DnsPublish
    \/ StatusCall



(***************************************************************************)
(* The client delivery pipeline (src/nylo.js): queueEvent, sendBatch and   *)
(* its fetch callbacks, the retry and cooldown timers, the batch interval  *)
(* and the page lifecycle handlers.  Time is in seconds.                   *)
(***************************************************************************)
maxRetries == 3
batchInterval == 12
COOLDOWN == 30

PipeEvents == 1..(IF MaxOutageEvents > MaxEvents THEN MaxOutageEvents ELSE MaxEvents)

Min(S) == CHOOSE x \in S : \A y \in S : x <= y
Pow2(n) == IF n = 0 THEN 1 ELSE IF n = 1 THEN 2 ELSE IF n = 2 THEN 4 ELSE 8
Take(q, n) == SubSeq(q, 1, IF Len(q) < n THEN Len(q) ELSE n)
Drop(q, n) == SubSeq(q, (IF Len(q) < n THEN Len(q) ELSE n) + 1, Len(q))
Range(q) == {q[i] : i \in 1..Len(q)}

\* sendBatch, called with the queue as the caller left it: nothing when the
\* queue is empty or the breaker is open, else the first batchSize events
\* leave the queue in a fetch
sendBatch(queue) ==
    IF Len(queue) = 0 \/ isCircuitBreakerOpen
    THEN /\ eventQueue' = queue
         /\ UNCHANGED <<fetches, lastSend>>
    ELSE /\ eventQueue' = Drop(queue, batchSize)
         /\ fetches' = fetches \cup {Take(queue, batchSize)}
         /\ lastSend' = [streak |-> streak.n, since |-> streak.since, at |-> clock]

\* if (state.eventQueue.length >= config.batchSize * 3)
ReachesThresholdLate(queue) == Len(queue) >= batchSize * 3 + 1
ReachesThreshold(queue) == Len(queue) >= batchSize * 3

\* queueEvent: push, and send at once when batchSize * 3 events wait
QueueEventUpTo(max) ==
    /\ eventsCreated < max
    /\ eventsCreated' = eventsCreated + 1
    /\ LET queue == Append(eventQueue, eventsCreated + 1)
       IN  IF ReachesThreshold(queue)
           THEN /\ sendBatch(queue)
                /\ valve' = [len |-> Len(queue), sent |-> Len(queue) - Len(eventQueue'),
                             open |-> isCircuitBreakerOpen]
           ELSE eventQueue' = queue /\ UNCHANGED <<fetches, lastSend, valve>>
    /\ UNCHANGED <<retryQueue, retryCount, isCircuitBreakerOpen, retryTimers,
                   cooldownTimers, batchTimer, clock, streak, delays, openedAt>>
    /\ UNCHANGED otherThanPipe

\* setInterval(sendBatch, config.batchInterval)
BatchTimerFires ==
    /\ batchTimer = clock
    /\ batchTimer' = batchTimer + batchInterval
    /\ sendBatch(eventQueue)
    /\ UNCHANGED <<retryQueue, retryCount, isCircuitBreakerOpen, retryTimers,
                   cooldownTimers, clock, eventsCreated, streak, delays, valve,
                   openedAt>>
    /\ UNCHANGED otherThanPipe

\* beforeunload, and visibilitychange with document.hidden
PageHides ==
    /\ Len(eventQueue) > 0
    /\ sendBatch(eventQueue)
    /\ UNCHANGED <<retryQueue, retryCount, isCircuitBreakerOpen, retryTimers,
                   cooldownTimers, batchTimer, clock, eventsCreated, streak, delays, valve,
                   openedAt>>
    /\ UNCHANGED otherThanPipe

\* .then of the fetch: response.ok
FetchSucceeds(f) ==
    /\ f \in fetches
    /\ fetches' = fetches \ {f}
    /\ retryCount' = 0
    /\ isCircuitBreakerOpen' = FALSE
    /\ streak' = [n |-> 0, since |-> 0]
    /\ UNCHANGED <<eventQueue, retryQueue, retryTimers, cooldownTimers, batchTimer,
                   clock, eventsCreated, lastSend, delays, valve, openedAt>>
    /\ UNCHANGED otherThanPipe

\* the delay of the retry scheduled at the given count: Math.pow(2, retryCount) * 1000
retryDelayLinear(count) == count + 1
retryDelay(count) == Pow2(count)

\* .catch of the fetch: a network error or a response that is not ok
FetchFails(f) ==
    /\ f \in fetches
    /\ fetches' = fetches \ {f}
    /\ streak' = [n |-> IF streak.n > maxRetries THEN streak.n ELSE streak.n + 1,
                  since |-> IF streak.n + 1 = maxRetries THEN clock ELSE streak.since]
    /\ IF retryCount < maxRetries
       THEN /\ retryQueue' = retryQueue \o f
            /\ retryCount' = retryCount + 1
            /\ retryTimers' = retryTimers \cup
                  {[due |-> clock + retryDelay(retryCount),
                    k |-> Cardinality({t \in retryTimers :
                                         t.due = clock + retryDelay(retryCount)})]}
            /\ delays' = [e \in PipeEvents |->
                            IF e \in Range(f)
                            THEN [prev |-> delays[e].last, last |-> retryDelay(retryCount)]
                            ELSE delays[e]]
            /\ UNCHANGED <<isCircuitBreakerOpen, cooldownTimers, openedAt>>
       ELSE /\ isCircuitBreakerOpen' = TRUE
            /\ cooldownTimers' = cooldownTimers \cup {clock + COOLDOWN}
            /\ openedAt' = IF isCircuitBreakerOpen THEN openedAt ELSE clock
            /\ delays' = [e \in PipeEvents |-> [prev |-> 0, last |-> 0]]
            /\ UNCHANGED <<retryQueue, retryCount, retryTimers>>
    /\ UNCHANGED <<eventQueue, batchTimer, clock, eventsCreated, lastSend, valve>>
    /\ UNCHANGED otherThanPipe

\* the setTimeout callback of a failed fetch
RetryTimerFires(t) ==
    /\ t \in retryTimers
    /\ t.due = clock
    /\ \A u \in retryTimers : u.due = t.due => u.k <= t.k
    /\ retryTimers' = retryTimers \ {t}
    /\ retryQueue' = Drop(retryQueue, batchSize)
    /\ LET retryBatch == Take(retryQueue, batchSize)
       IN  IF Len(retryBatch) > 0
           THEN sendBatch(retryBatch \o eventQueue)
           ELSE UNCHANGED <<eventQueue, fetches, lastSend>>
    /\ UNCHANGED <<retryCount, isCircuitBreakerOpen, cooldownTimers, batchTimer, clock,
                   eventsCreated, streak, delays, valve, openedAt>>
    /\ UNCHANGED otherThanPipe

\* the setTimeout callback of the opened breaker
CooldownTimerFires(due) ==
    /\ due \in cooldownTimers
    /\ due = clock
    /\ cooldownTimers' = cooldownTimers \ {due}
    /\ isCircuitBreakerOpen' = FALSE
    /\ retryCount' = 0
    /\ openedAt' = IF openedAt # -1 /\ clock >= openedAt + COOLDOWN THEN -1 ELSE openedAt
    /\ UNCHANGED <<eventQueue, retryQueue, fetches, retryTimers, batchTimer, clock,
                   eventsCreated, streak, lastSend, delays, valve>>
    /\ UNCHANGED otherThanPipe

\* time passes to the next timer, once the timers due now have run
DueTimes == {t.due : t \in retryTimers} \cup cooldownTimers \cup {batchTimer}
AdvanceClock ==
    /\ \A d \in DueTimes : d > clock
    /\ Min(DueTimes) <= MaxClock
    /\ clock' = Min(DueTimes)
    /\ UNCHANGED <<eventQueue, retryQueue, retryCount, isCircuitBreakerOpen, fetches,
                   retryTimers, cooldownTimers, batchTimer, eventsCreated,
                   streak, lastSend, delays, valve, openedAt>>
    /\ UNCHANGED otherThanPipe

\* the page after initialize(): empty queues, the batch interval running
PipeInit ==
    /\ eventQueue = <<>>
    /\ retryQueue = <<>>
    /\ retryCount = 0
    /\ isCircuitBreakerOpen = FALSE
    /\ fetches = {}
    /\ retryTimers = {}
    /\ cooldownTimers = {}
    /\ batchTimer = batchInterval
    /\ clock = 0
    /\ eventsCreated = 0
    /\ streak = [n |-> 0, since |-> 0]
    /\ lastSend = [streak |-> 0, since |-> 0, at |-> 0]
    /\ delays = [e \in PipeEvents |-> [prev |-> 0, last |-> 0]]
    /\ valve = [len |-> 0, sent |-> 0, open |-> FALSE]
    /\ openedAt = -1

QueueEvent == QueueEventUpTo(MaxEvents)
PipeFetchSucceeds == \E f \in fetches : FetchSucceeds(f)
PipeFetchFails == \E f \in fetches : FetchFails(f)
PipeRetryTimer == \E t \in retryTimers : RetryTimerFires(t)
PipeCooldownTimer == \E due \in cooldownTimers : CooldownTimerFires(due)

NextPipe ==
    \/ QueueEvent
    \/ BatchTimerFires
    \/ PageHides
    \/ PipeFetchSucceeds
    \/ PipeFetchFails
    \/ PipeRetryTimer
    \/ PipeCooldownTimer
    \/ AdvanceClock

\* the pipeline while the server cannot be reached: every fetch rejects
QueueEventOutage == QueueEventUpTo(MaxOutageEvents)
NextOutage ==
    \/ QueueEventOutage
    \/ BatchTimerFires
    \/ PageHides
    \/ PipeFetchFails
    \/ PipeRetryTimer
    \/ PipeCooldownTimer
    \/ AdvanceClock

\* the same while the page stays visible and is not unloaded
NextBurst ==
    \/ QueueEventOutage
    \/ BatchTimerFires
    \/ PipeFetchFails
    \/ PipeRetryTimer
    \/ PipeCooldownTimer
    \/ AdvanceClock

(***************************************************************************)
(* The client identity manager (src/nylo.js): CrossDomainIdentity, the     *)
(* identity part of initialize and both window.Nylo.setConsent.            *)
(***************************************************************************)
Tiers == {"cookie", "local", "session"}

\* an identity: sessionId and waiTag, 0 for a missing one
NoId == [sessionId |-> 0, waiTag |-> 0]
\* 'anon_' + Date.now().toString(36) + ...: a session id that is no identity
AnonSession == [sessionId |-> -1, waiTag |-> 0]
\* what the token of the URL decodes to: no token (NoId), a whole identity, one
\* without sessionId (the server answers success only for a whole identity)
UrlTokens == {NoId, [sessionId |-> 90, waiTag |-> 90], [sessionId |-> 0, waiTag |-> 91]}

\* a tier holds nothing, a record, or bytes that do not decode
NoEntry == [kind |-> "none", id |-> NoId]
Corrupt == [kind |-> "corrupt", id |-> NoId]
Entry(id) == [kind |-> "data", id |-> id]

\* storedIdentity && storedIdentity.sessionId && storedIdentity.waiTag
IsValidIdentityWaiTagOnly(id) == id.waiTag # 0
IsValidIdentity(id) == id.sessionId # 0 /\ id.waiTag # 0

SomeTierValid == \E t \in Tiers : tiers[t].kind = "data" /\ IsValidIdentity(tiers[t].id)

\* getStoredIdentityData: the cookie when it parses, else what localStorage
\* decrypts to when it has an entry (null when that fails), else
\* sessionStorage; NoId stands for null
getStoredIdentityData ==
    IF tiers["cookie"].kind = "data" THEN tiers["cookie"].id
    ELSE IF tiers["local"].kind # "none" THEN tiers["local"].id
    ELSE tiers["session"].id

\* storeIdentityData: each tier in its own try/catch
storeIdentityData(id) ==
    [t \in Tiers |-> IF t \in blocked THEN tiers[t] ELSE Entry(id)]

\* generateNewIdentity: fresh sessionId and waiTag, stored in every tier
generateNewIdentity ==
    LET id == [sessionId |-> idsIssued + 1, waiTag |-> idsIssued + 1]
    IN  /\ idsIssued < MaxIds
        /\ idsIssued' = idsIssued + 1
        /\ stateId' = id
        /\ tiers' = storeIdentityData(id)
        /\ lastGen' = [waiTag |-> id.waiTag, overValid |-> SomeTierValid]
        /\ lastStored' = id

\* if (storedIdentity && ...) adopt it, else generateNewIdentity()
AdoptOrGenerate ==
    IF IsValidIdentity(getStoredIdentityData)
    THEN /\ stateId' = getStoredIdentityData
         /\ UNCHANGED <<tiers, idsIssued, lastGen, lastStored>>
    ELSE generateNewIdentity

\* a page load runs initialize() up to the answer of the token verification
PageLoad(anonymous, token) ==
    /\ pageLoads < MaxLoads
    /\ pageLoads' = pageLoads + 1
    /\ urlToken' = token
    /\ anonymousMode' = anonymous
    /\ IF anonymous
       THEN /\ stateId' = AnonSession
            /\ nyloApi' = "anonymous"
            /\ identPc' = "idle"
            /\ UNCHANGED <<tiers, idsIssued, lastGen, lastStored>>
       ELSE IF token # NoId
       THEN /\ stateId' = NoId
            /\ nyloApi' = "none"
            /\ identPc' = "init"
            /\ UNCHANGED <<tiers, idsIssued, lastGen, lastStored>>
       ELSE /\ AdoptOrGenerate
            /\ nyloApi' = "normal"
            /\ identPc' = "idle"
    /\ UNCHANGED blocked
    /\ UNCHANGED otherThanIdent

\* verifyAndProcessToken settles during initialize: the identity of the
\* token when the server returned one, else the stored or a new identity
InitVerifySettles(ok) ==
    /\ identPc = "init"
    /\ identPc' = "idle"
    /\ nyloApi' = "normal"
    /\ IF ok /\ IsValidIdentity(urlToken)
       THEN /\ stateId' = urlToken
            /\ tiers' = storeIdentityData(urlToken)
            /\ lastStored' = urlToken
            /\ UNCHANGED <<idsIssued, lastGen>>
       ELSE AdoptOrGenerate
    /\ UNCHANGED <<blocked, anonymousMode, urlToken, pageLoads>>
    /\ UNCHANGED otherThanIdent

\* window.Nylo.setConsent({analytics: false}), the same in both APIs: the
\* keys it removes ('nylo_identity') are not the keys of the identity
SetConsentDenied ==
    /\ nyloApi # "none"
    /\ stateId' = [stateId EXCEPT !.waiTag = 0]
    /\ anonymousMode' = TRUE
    /\ UNCHANGED <<tiers, blocked, nyloApi, identPc, urlToken, idsIssued, pageLoads,
                   lastGen, lastStored>>
    /\ UNCHANGED otherThanIdent

\* window.Nylo.setConsent({analytics: true}) of the API installed
SetConsentGranted ==
    /\ nyloApi # "none"
    /\ anonymousMode' = FALSE
    /\ IF nyloApi = "normal"
       THEN /\ generateNewIdentity
            /\ UNCHANGED identPc
       ELSE /\ AdoptOrGenerate
            /\ identPc' = IF urlToken # NoId THEN "consent" ELSE identPc
    /\ UNCHANGED <<blocked, nyloApi, urlToken, pageLoads>>
    /\ UNCHANGED otherThanIdent

\* verifyAndProcessToken settles after the setConsent of the anonymous API
ConsentVerifySettles(ok) ==
    /\ identPc = "consent"
    /\ identPc' = "idle"
    /\ IF ok /\ IsValidIdentity(urlToken)
       THEN /\ stateId' = urlToken
            /\ tiers' = storeIdentityData(urlToken)
            /\ lastStored' = urlToken
       ELSE UNCHANGED <<stateId, tiers, lastStored>>
    /\ UNCHANGED <<blocked, anonymousMode, nyloApi, urlToken, idsIssued, pageLoads,
                   lastGen>>
    /\ UNCHANGED otherThanIdent

\* the browser: the cookie reaches max-age, the tab closes, the user clears
\* a store, or an entry is left that does not decode
TierChanges(t, entry) ==
    /\ tiers[t].kind = "data"
    /\ tiers' = [tiers EXCEPT ![t] = entry]
    /\ UNCHANGED <<blocked, stateId, anonymousMode, nyloApi, identPc, urlToken,
                   idsIssued, pageLoads, lastGen, lastStored>>
    /\ UNCHANGED otherThanIdent

\* the browser: the writes of a store start to fail (quota reached, cookies
\* switched off) or work again; what the store holds stays
WriteAvailabilityChanges(t) ==
    /\ blocked' = IF t \in blocked THEN blocked \ {t} ELSE blocked \cup {t}
    /\ UNCHANGED <<tiers, stateId, anonymousMode, nyloApi, identPc, urlToken,
                   idsIssued, pageLoads, lastGen, lastStored>>
    /\ UNCHANGED otherThanIdent

\* before the first page load
IdentInitState ==
    /\ tiers = [t \in Tiers |-> NoEntry]
    /\ stateId = NoId
    /\ anonymousMode = FALSE
    /\ nyloApi = "none"
    /\ identPc = "idle"
    /\ urlToken = NoId
    /\ idsIssued = 0
    /\ pageLoads = 0
    /\ lastGen = [waiTag |-> 0, overValid |-> FALSE]
    /\ lastStored = NoId
IdentInit == IdentInitState /\ blocked = {}

IdentPageLoad == \E anonymous \in BOOLEAN, token \in UrlTokens : PageLoad(anonymous, token)
IdentInitVerify == \E ok \in BOOLEAN : InitVerifySettles(ok)
IdentConsentVerify == \E ok \in BOOLEAN : ConsentVerifySettles(ok)
IdentTierChanges == \E t \in Tiers, entry \in {NoEntry, Corrupt} : TierChanges(t, entry)
IdentWriteAvailability == \E t \in Tiers : WriteAvailabilityChanges(t)

NextIdent ==
    \/ IdentPageLoad
    \/ IdentInitVerify
    \/ SetConsentDenied
    \/ SetConsentGranted
    \/ IdentConsentVerify
    \/ IdentTierChanges
    \/ IdentWriteAvailability

(***************************************************************************)
(* The wire between the client and the server: createEvent, queueEvent,    *)
(* Compression.compress and the request of sendBatch (src/nylo.js), and    *)
(* what POST /api/track (server/index.ts) makes of the body.               *)
(***************************************************************************)
\* a JSON property that is absent (undefined in JavaScript), and null
Undefined == "undefined"
Null == "null"
IsSet(x) == x \notin {Undefined, Null, ""}

\* config.compressionEnabled
compressionEnabled == TRUE
\* window.location.hostname and the data-customer-id of the script tag
Hostname == "shop.example.com"
ScriptCustomerId == "c1"
EventTypes == {"page_view", "click"}

\* createEvent: the identity of the moment the event is made
createEvent(eventType) ==
    [sessionId |-> wireState.sessionId, waiTag |-> wireState.waiTag,
     userId |-> wireState.userId, customerId |-> ScriptCustomerId,
     timestamp |-> wireClock, eventType |-> eventType, domain |-> Hostname]

\* Object.assign({}, event) with the five identity properties deleted
StripIdentity(event) ==
    [event EXCEPT !.sessionId = Undefined, !.userId = Undefined, !.waiTag = Undefined,
                  !.domain = Undefined, !.customerId = Undefined]

NoCommon ==
    [sessionId |-> Undefined, userId |-> Undefined, waiTag |-> Undefined,
     domain |-> Undefined, customerId |-> Undefined]

\* the header of the compressed batch: the properties of data[0]
CommonOf(data) ==
    [sessionId |-> data[1].sessionId, userId |-> data[1].userId,
     waiTag |-> data[1].waiTag, domain |-> data[1].domain,
     customerId |-> ScriptCustomerId]

\* Compression.compress: the array itself when compression is off, else the
\* object {common, events}
compress(data) ==
    IF ~compressionEnabled
    THEN [kind |-> "array", common |-> NoCommon, items |-> data]
    ELSE [kind |-> "object", common |-> CommonOf(data),
          items |-> [i \in 1..Len(data) |-> StripIdentity(data[i])]]

\* `${sessionId}:${eventType}:${eventTimestampStr}` of a wire event
WireDedupKey(e) == <<e.sessionId, e.eventType, e.timestamp>>

\* the for loop of the route over an array of events, with a storage that
\* accepts every write: the dedup keys and the interactions it leaves
RECURSIVE TrackLoop(_, _, _, _)
TrackLoop(items, i, cache, stored) ==
    IF i > Len(items) THEN [cache |-> cache, stored |-> stored]
    ELSE LET e == items[i]
         IN  IF ~(IsSet(e.sessionId) /\ IsSet(e.eventType) /\ IsSet(e.domain))
                  \/ WireDedupKey(e) \in cache
             THEN TrackLoop(items, i + 1, cache, stored)
             ELSE TrackLoop(items, i + 1, cache \cup {WireDedupKey(e)},
                            Append(stored, [sessionId |-> e.sessionId,
                                            userId |-> e.userId,
                                            domain |-> e.domain,
                                            interactionType |-> e.eventType,
                                            timestamp |-> e.timestamp]))

\* app.post("/api/track") on the value of req.body.events: for...of over a
\* value that is not an array throws, and the outer catch answers 500
TrackEvents(events) ==
    IF events.kind # "array"
    THEN [http |-> 500, cache |-> wireDedup, stored |-> wireStored]
    ELSE IF Len(events.items) = 0
    THEN [http |-> 400, cache |-> wireDedup, stored |-> wireStored]
    ELSE [http |-> 200] @@ TrackLoop(events.items, 1, wireDedup, wireStored)

NoWireSent == [batch |-> <<>>, events |-> [kind |-> "", common |-> NoCommon, items |-> <<>>],
               http |-> 0]

\* sendBatch: the first wireBatchSize events leave the queue, compressed, in
\* the body {events, batchId, timestamp}; the server answers
wireSendBatch(queue) ==
    LET batch == Take(queue, wireBatchSize)
        events == compress(batch)
        answer == TrackEvents(events)
    IN  /\ wireQueue' = Drop(queue, wireBatchSize)
        /\ wireSent' = [batch |-> batch, events |-> events, http |-> answer.http]
        /\ wireDedup' = answer.cache
        /\ wireStored' = answer.stored

\* queueEvent of one tracked event
WireQueueEvent(eventType) ==
    /\ wireCreated < MaxWireEvents
    /\ wireCreated' = wireCreated + 1
    /\ LET queue == Append(wireQueue, createEvent(eventType))
       IN  IF Len(queue) >= wireBatchSize * 3
           THEN wireSendBatch(queue)
           ELSE wireQueue' = queue /\ UNCHANGED <<wireSent, wireDedup, wireStored>>
    /\ UNCHANGED <<wireState, wireClock>>
    /\ UNCHANGED <<syncVars, trackVars, dnsVars, pipeVars, identVars, txtCheck, statusResp>>

\* the batch interval (or the page lifecycle) calls sendBatch
WireSendBatch ==
    /\ Len(wireQueue) > 0
    /\ wireSendBatch(wireQueue)
    /\ UNCHANGED <<wireState, wireClock, wireCreated>>
    /\ UNCHANGED <<syncVars, trackVars, dnsVars, pipeVars, identVars, txtCheck, statusResp>>

\* window.Nylo.identify(userId)
WireIdentify ==
    /\ wireState.userId = Null
    /\ wireState' = [wireState EXCEPT !.userId = "u1"]
    /\ UNCHANGED <<wireClock, wireQueue, wireCreated, wireSent, wireDedup, wireStored>>
    /\ UNCHANGED <<syncVars, trackVars, dnsVars, pipeVars, identVars, txtCheck, statusResp>>

\* window.Nylo.setConsent({analytics: true}): generateNewIdentity
WireNewIdentity ==
    /\ wireState.sessionId = "s1"
    /\ wireState' = [wireState EXCEPT !.sessionId = "s2", !.waiTag = "w2"]
    /\ UNCHANGED <<wireClock, wireQueue, wireCreated, wireSent, wireDedup, wireStored>>
    /\ UNCHANGED <<syncVars, trackVars, dnsVars, pipeVars, identVars, txtCheck, statusResp>>

\* a server-side integration posts a single event as the body itself:
\* req.body.events || [req.body]
WirePostSingle(eventType) ==
    /\ Len(wireStored) < MaxWireEvents
    /\ LET answer == TrackEvents([kind |-> "array", common |-> NoCommon,
                                  items |-> <<createEvent(eventType)>>])
       IN  /\ wireDedup' = answer.cache
           /\ wireStored' = answer.stored
    /\ UNCHANGED <<wireState, wireClock, wireQueue, wireCreated, wireSent>>
    /\ UNCHANGED <<syncVars, trackVars, dnsVars, pipeVars, identVars, txtCheck, statusResp>>

\* a millisecond passes
WireTick ==
    /\ wireClock < MaxWireTime
    /\ wireClock' = wireClock + 1
    /\ UNCHANGED <<wireState, wireQueue, wireCreated, wireSent, wireDedup, wireStored>>
    /\ UNCHANGED <<syncVars, trackVars, dnsVars, pipeVars, identVars, txtCheck, statusResp>>

\* the page after initialize(): an identity, nothing queued or sent
WireInit ==
    /\ wireState = [sessionId |-> "s1", waiTag |-> "w1", userId |-> Null]
    /\ wireClock = 0
    /\ wireQueue = <<>>
    /\ wireCreated = 0
    /\ wireSent = NoWireSent
    /\ wireDedup = {}
    /\ wireStored = <<>>

WireTrack == \E eventType \in EventTypes : WireQueueEvent(eventType)
WirePost == \E eventType \in EventTypes : WirePostSingle(eventType)

NextWire ==
    \/ WireTrack
    \/ WireSendBatch
    \/ WireIdentify
    \/ WireNewIdentity
    \/ WirePost
    \/ WireTick

(***************************************************************************)
(* Specifications                                                          *)
(***************************************************************************)
Init ==
    /\ SyncInit /\ TrackInit /\ DnsInit /\ PipeInit /\ IdentInit /\ TxtInit /\ StatusInit
    /\ WireInit

SpecSync == Init /\ [][NextSync]_vars
SpecTrack == Init /\ [][NextTrack]_vars

\* the route under requests of one or two events, with storage calls that
\* may fail: a single event, a skipped event first, two events of different
\* keys, the same event twice
IngestBatches ==
    {<<Ev("a", "b:c", NoTs, "example.com")>>,
     <<Ev("a", "b:c", NoTs, ""), Ev("a", "b:c", NoTs, "example.com")>>,
     <<Ev("a", "b:c", StrTs("5"), "example.com"), Ev("a", "b:c", NoTs, "example.com")>>,
     <<Ev("a", "b:c", StrTs("5"), "example.com"), Ev("a", "b:c", StrTs("5"), "example.com")>>}
IngestRequest == \E h \in Handlers, evs \in IngestBatches : TrackStart(h, evs)
NextIngest ==
    \/ IngestRequest
    \/ TrackStorageSettles
    \/ TrackTick
SpecIngest == Init /\ [][NextIngest]_vars
SpecDns == Init /\ [][NextDns]_vars

\* a storage with or without isDomainVerified
InitGate ==
    /\ SyncInit /\ TrackInit /\ DnsInitStorage /\ enforce \in BOOLEAN /\ PipeInit
    /\ IdentInit /\ TxtInit /\ StatusInit /\ WireInit
SpecGate == InitGate /\ [][NextGate]_vars
SpecStatus == Init /\ [][NextStatus]_vars

\* the token route next to the verification of example.com by customer 1
TokenDnsRequest ==
    /\ dnsCalls < MaxGateDnsCalls
    /\ \A h \in DnsHandlers : dh[h].pc = "idle"
    /\ \E op \in {"request", "verify"} :
          DnsStart(1, op, [name |-> <<"example", "com">>, form |-> "plain"], "", 1)
TokenDnsPublish == PublishTxt(<<"example", "com">>, 1)
NextToken ==
    \/ TokenDnsRequest
    \/ DnsRequestVerification
    \/ DnsVerifyRead
    \/ DnsVerifyLookup
    \/ TokenDnsPublish
    \/ TokenVerify
SpecToken == InitGate /\ [][NextToken]_vars
SpecPipe == Init /\ [][NextPipe]_vars
SpecOutage == Init /\ [][NextOutage]_vars
SpecBurst == Init /\ [][NextBurst]_vars
InitIdent ==
    /\ SyncInit /\ TrackInit /\ DnsInit /\ PipeInit
    /\ IdentInitState /\ blocked \in SUBSET Tiers
    /\ TxtInit /\ StatusInit /\ WireInit
SpecIdent == InitIdent /\ [][NextIdent]_vars

\* page loads alone: initialize() and the browser's stores, no consent call
NextInitialize ==
    \/ IdentPageLoad
    \/ IdentInitVerify
    \/ IdentTierChanges
    \/ IdentWriteAvailability
SpecInitialize == InitIdent /\ [][NextInitialize]_vars
SpecTxt == Init /\ [][NextTxt]_vars
SpecWire == Init /\ [][NextWire]_vars

(***************************************************************************)
(* C9: sync-identity answers shared:true exactly when, after recording the *)
(* current call, two or more distinct named sites have been submitted for  *)
(* the request's fingerprint.                                              *)
(***************************************************************************)
C9_SharedIffTwoSites ==
    syncResp.op = "sync" =>
        (syncResp.shared <=> Cardinality(sitesNamed[syncResp.fp]) >= 2)

\* site "a" then site "b" from one fingerprint: the second call is a match
C9_Witness ==
    /\ syncResp.op = "sync"
    /\ syncResp.shared
    /\ syncResp.site = "b"
    /\ sitesNamed[syncResp.fp] = {"a", "b"}
    /\ syncCalls = 2

(***************************************************************************)
(* C10: whenever sync-identity declares a match, the waiTag it returns is  *)
(* the first identifier ever recorded for that fingerprint.                *)
(***************************************************************************)
C10_CanonicalIsFirstRecorded ==
    (syncResp.op = "sync" /\ syncResp.shared) =>
        syncResp.waiTag = firstRecorded[syncResp.fp]

(***************************************************************************)
(* C1: with a storage that accepts every write, once an event triple has   *)
(* been accepted and delivered again before the expiry of that acceptance  *)
(* (twice in one batch or in two requests), exactly one interaction is     *)
(* stored for the triple in that window.                                   *)
(***************************************************************************)
StoredInWindow(e) ==
    {i \in DOMAIN interactions :
        /\ interactions[i].src = e
        /\ interactions[i].at >= win[e].first
        /\ interactions[i].at < win[e].first + DEDUP_WINDOW_MS}

AwaitingStoreOf(e) ==
    \E h \in Handlers : trk[h].pc = "await" /\ trk[h].events[trk[h].i] = e

C1_DedupIdempotence ==
    \A e \in Events :
        (win[e].first # -1 /\ win[e].n >= 2 /\ ~storageFailed /\ ~AwaitingStoreOf(e))
            => Cardinality(StoredInWindow(e)) = 1

\* the same triple twice inside one batch, and once more in a later request
C1_Witness ==
    \E e \in Events, h \in Handlers :
        /\ win[e].n >= 3
        /\ ~storageFailed
        /\ trk[h].pc = "done" /\ trk[h].events = <<e, e>>
        /\ trk[h].processedCount = 0
        /\ Cardinality(StoredInWindow(e)) = 1

(***************************************************************************)
(* C2: with isDomainVerified implemented, a verify-cross-domain-token      *)
(* request that carries a token, a domain and a customerId whose pair is   *)
(* not verified in storage is answered 403 without an identity, whatever   *)
(* the token is.                                                           *)
(***************************************************************************)
C2_GateBlocksUnverified ==
    ( /\ tokResp.http # 0
      /\ enforce
      /\ tokResp.req.token.raw # ""
      /\ tokResp.req.domain.name # <<>>
      /\ Truthy(tokResp.req.customerId)
      /\ ~tokResp.req.pairWas )
        => (tokResp.http = 403 /\ ~tokResp.success /\ tokResp.identity = NoIdentity)

\* a well-formed token is refused for a pair that another customer has verified
C2_Witness ==
    /\ enforce
    /\ tokResp.http = 403
    /\ tokResp.req.token = JsonToken("w1", "s1", 0)
    /\ tokResp.req.domain = [name |-> <<"example", "com">>, form |-> "plain"]
    /\ tokResp.req.customerId.n = 1
    /\ domainVerifications[<< <<"example", "com">>, 2 >>].status = "verified"

(***************************************************************************)
(* C6: a verify of a subdomain whose own TXT lookup does not match ends    *)
(* verified exactly when the storage held a verified record of the parent  *)
(* domain for the same customer when the handler asked for it, and ends    *)
(* failed otherwise; the stored status is the one answered.                *)
(***************************************************************************)
C6_SubdomainInheritance ==
    ( /\ dnsResp.op = "verify" /\ dnsResp.checked
      /\ Len(dnsResp.domain) > 2
      /\ ~dnsResp.txtPublished )
        => /\ dnsResp.status = (IF dnsResp.parentWas THEN "verified" ELSE "failed")
           /\ domainVerifications[<<dnsResp.domain, dnsResp.customer>>].status
                 = dnsResp.status

\* blog.example.com without a record of its own inherits from example.com
C6_Witness ==
    /\ dnsResp.op = "verify" /\ dnsResp.checked
    /\ dnsResp.domain = <<"blog", "example", "com">>
    /\ ~dnsResp.txtPublished
    /\ dnsTxt[dnsResp.domain] = {}
    /\ dnsResp.status = "verified"
    /\ dnsResp.method = "parent_domain_verified"

(***************************************************************************)
(* C7: a verify that finds the record failed runs the DNS check again,     *)
(* against the token of that record, and leaves the record verified when   *)
(* the TXT record now carries nylo-verify=<token>.                         *)
(***************************************************************************)
C7_FailedIsRetryable ==
    (dnsResp.op = "verify" /\ dnsResp.http = 200 /\ dnsResp.was = "failed")
        => /\ dnsResp.checked
           /\ dnsResp.txtPublished =>
                 /\ dnsResp.status = "verified"
                 /\ domainVerifications[<<dnsResp.domain, dnsResp.customer>>].status
                       = "verified"

\* request, verify (failed), publish, verify (verified): one token, three calls
C7_Witness ==
    /\ dnsResp.op = "verify" /\ dnsResp.was = "failed"
    /\ dnsResp.txtPublished
    /\ dnsResp.status = "verified" /\ dnsResp.method = "direct_txt"
    /\ tokenCounter = 1 /\ dnsCalls = 3

(***************************************************************************)
(* C8: the token stored for a (domain, customer) pair never changes once   *)
(* created, and a request-verification response that carries a token       *)
(* carries the stored one.                                                 *)
(***************************************************************************)
C8_TokenStable ==
    /\ \A p \in Pairs :
          domainVerifications[p].exists => domainVerifications[p].token = issued[p]
    /\ (dnsResp.op = "request" /\ dnsResp.token # "")
          => dnsResp.token = domainVerifications[<<dnsResp.domain, dnsResp.customer>>].token

(***************************************************************************)
(* C3: once maxRetries send attempts have failed in a row, no fetch is     *)
(* started before the cooldown (30 s) has passed since the last of them.   *)
(***************************************************************************)
C3_BreakerAfterMaxRetries ==
    lastSend.streak >= maxRetries => lastSend.at >= lastSend.since + COOLDOWN

(***************************************************************************)
(* C5: the delays scheduled for the successive retries of a batch strictly *)
(* increase until the circuit breaker opens, whatever the sends of other   *)
(* batches do in between.                                                  *)
(***************************************************************************)
C5_BackoffMonotone ==
    \A e \in PipeEvents : delays[e].prev # 0 => delays[e].prev < delays[e].last

(***************************************************************************)
(* C4: while a storage tier holds a valid identity record, no client       *)
(* operation generates a fresh identifier: every generateNewIdentity runs  *)
(* with no valid record in any tier.                                       *)
(***************************************************************************)
C4_IdentifierStable == ~lastGen.overValid

(***************************************************************************)
(* C11: a delivery of a triple whose key was written before, made at or    *)
(* after the expiry last written for the key, is accepted: the handler     *)
(* calls storage.createInteraction for it and the key is rewritten with    *)
(* the expiry now + window, whether or not the sweep has removed the       *)
(* entry.                                                                  *)
(***************************************************************************)
C11_ExpiredIsAccepted ==
    \A r \in resubs :
        r.t >= r.expiry =>
            /\ r.accepted
            /\ r.newExpiry = r.t + DEDUP_WINDOW_MS
            /\ trk[r.h].pc = "await"
            /\ trk[r.h].events[trk[r.h].i] = r.e
            /\ trk[r.h].at = r.t

\* a resubmission after the sweep has removed the expired entry
C11_Witness ==
    \E r \in resubs :
        /\ r.t > r.expiry /\ r.swept /\ r.accepted
        /\ dedupCache[DedupKey(r.e)] = r.t + DEDUP_WINDOW_MS

(***************************************************************************)
(* C12: when request-verification answers pending for a pair whose record  *)
(* it had read as absent, pending or failed, the stored record of the pair *)
(* has status pending.                                                     *)
(***************************************************************************)
C12_PendingIsStored ==
    (dnsResp.op = "request" /\ dnsResp.status = "pending")
        => domainVerifications[<<dnsResp.domain, dnsResp.customer>>].status = "pending"

(***************************************************************************)
(* C13: a request-verification that reads the record of its pair as        *)
(* verified changes no stored record and mints no token, and answers       *)
(* status verified without a token.                                        *)
(***************************************************************************)
C13_VerifiedRequestIsNoOp ==
    [][\A h \in DnsHandlers :
          ( /\ dh[h].pc = "read" /\ dh[h].op = "request"
            /\ dh[h].existing.status = "verified"
            /\ dh'[h].pc = "idle" )
              => /\ domainVerifications' = domainVerifications
                 /\ tokenCounter' = tokenCounter
                 /\ dnsResp'.op = "request"
                 /\ dnsResp'.status = "verified"
                 /\ dnsResp'.token = ""]_vars

\* the second request-verification in a row for a verified pair
C13_Witness ==
    /\ dnsResp.op = "request" /\ dnsResp.status = "verified" /\ dnsResp.was = "verified"
    /\ domainVerifications[<<dnsResp.domain, dnsResp.customer>>].status = "verified"
    /\ domainVerifications[<<dnsResp.domain, dnsResp.customer>>].token = "t1"
    /\ tokenCounter = 1
    /\ dnsCalls = 4

(***************************************************************************)
(* C14: a verify that reads no record for its pair answers 404 in that     *)
(* step, never reaches the DNS lookup and leaves every stored record as    *)
(* it was.                                                                 *)
(***************************************************************************)
C14_VerifyWithoutRequestIs404 ==
    [][\A h \in DnsHandlers :
          ( /\ dh[h].pc = "read" /\ dh[h].op = "verify"
            /\ ~dh[h].existing.exists
            /\ dh'[h] # dh[h] )
              => /\ dh'[h].pc = "idle"
                 /\ dnsResp'.op = "verify"
                 /\ dnsResp'.http = 404
                 /\ ~dnsResp'.checked
                 /\ domainVerifications' = domainVerifications
                 /\ tokenCounter' = tokenCounter]_vars

\* a verify answered 404 for a pair that still has no record
C14_Witness ==
    /\ dnsResp.op = "verify" /\ dnsResp.http = 404
    /\ <<dnsResp.domain, dnsResp.customer>> \in Pairs
    /\ ~domainVerifications[<<dnsResp.domain, dnsResp.customer>>].exists
    /\ \A p \in Pairs : ~domainVerifications[p].exists

(***************************************************************************)
(* C15: a token presented to verify-cross-domain-token more than five      *)
(* minutes after it was issued is rejected: the answer is no success and   *)
(* carries no identity.                                                    *)
(***************************************************************************)
C15_ExpiredTokenRejected ==
    tokResp.req.token.age > TOKEN_TTL_MIN
        => ~tokResp.success /\ tokResp.identity = NoIdentity

(***************************************************************************)
(* C16: a verify-cross-domain-token request for a subdomain whose parent   *)
(* domain is verified in storage for the same customer is not answered     *)
(* 403, although the subdomain has no verified record of its own.          *)
(***************************************************************************)
C16_SubdomainAuthorizedAtGate ==
    ( /\ tokResp.req.token.raw # ""
      /\ tokResp.req.parentWas
      /\ ~tokResp.req.pairWas )
        => tokResp.http # 403

(***************************************************************************)
(* C17: a sync-identity response with shared:true has written an audit     *)
(* interaction for the identity it returns, tagged as matched by           *)
(* fingerprint.                                                            *)
(***************************************************************************)
C17_SharedIsAudited ==
    (syncResp.op = "sync" /\ syncResp.shared)
        => \E i \in 1..Len(syncAudit) :
              /\ syncAudit[i].interactionType = "cross_domain_identity_match"
              /\ syncAudit[i].matchedBy = "fingerprint"
              /\ syncAudit[i].userId = syncResp.waiTag

\* a tier holds a record that decodes and has sessionId and waiTag
WellFormed(t) == tiers[t].kind = "data" /\ IsValidIdentity(tiers[t].id)

(***************************************************************************)
(* C18: getStoredIdentityData returns the identity of the first of cookie, *)
(* localStorage, sessionStorage that holds a well-formed record, skipping  *)
(* tiers that are missing or do not decode, and null only when none does.  *)
(***************************************************************************)
C18_RecoveryOrder ==
    getStoredIdentityData =
        IF WellFormed("cookie") THEN tiers["cookie"].id
        ELSE IF WellFormed("local") THEN tiers["local"].id
        ELSE IF WellFormed("session") THEN tiers["session"].id
        ELSE NoId

(***************************************************************************)
(* C19: while at least one tier still holds the record of the latest       *)
(* storeIdentityData call, whichever tier writes failed and whichever      *)
(* tiers were lost since, getStoredIdentityData returns the sessionId and  *)
(* waiTag of that call.                                                    *)
(***************************************************************************)
C19_RoundTripUnderTierLoss ==
    (lastStored # NoId /\ \E t \in Tiers : tiers[t] = Entry(lastStored))
        => /\ getStoredIdentityData.sessionId = lastStored.sessionId
           /\ getStoredIdentityData.waiTag = lastStored.waiTag

(***************************************************************************)
(* C20: state.eventQueue never holds more than 3 * batchSize events,       *)
(* whatever the pattern of enqueues and failed sends, the time the         *)
(* circuit breaker is open included.                                       *)
(***************************************************************************)
C20_EventQueueBounded ==
    Len(eventQueue) <= 3 * batchSize

(***************************************************************************)
(* C21 (as amended): whenever an enqueue brings the event queue to         *)
(* 3 * batchSize events or more while the circuit breaker is closed, the   *)
(* first batchSize events of the queue are handed to a fetch in that same  *)
(* step.                                                                   *)
(***************************************************************************)
C21_ValveSendsWhenClosed ==
    [][( /\ eventsCreated' = eventsCreated + 1
         /\ Len(eventQueue) + 1 >= 3 * batchSize
         /\ ~isCircuitBreakerOpen )
          => LET queue == Append(eventQueue, eventsCreated')
             IN  /\ fetches' = fetches \cup {Take(queue, batchSize)}
                 /\ fetches' # fetches
                 /\ eventQueue' = Drop(queue, batchSize)
                 /\ clock' = clock]_vars

\* the third event arrived with the breaker closed and the first left in a fetch
C21_Witness ==
    /\ valve.len = 3 * batchSize
    /\ ~valve.open
    /\ valve.sent = batchSize
    /\ eventsCreated = valve.len
    /\ Len(eventQueue) = valve.len - batchSize
    /\ Cardinality(fetches) = 1

(***************************************************************************)
(* C21 (as stated): whenever an enqueue brings the event queue to          *)
(* 3 * batchSize events or more, a batch is sent in that same step.        *)
(***************************************************************************)
C21_ValveAlwaysSends ==
    valve.len >= 3 * batchSize => valve.sent > 0

(***************************************************************************)
(* C22: a beforeunload or visibility-hidden event that finds the event     *)
(* queue non-empty flushes the whole queue: after the handler no event is  *)
(* left in the queue.  (The handler is the only step that shortens the     *)
(* queue without creating an event or consuming a timer.)                  *)
(***************************************************************************)
C22_UnloadFlushesAll ==
    [][( /\ eventQueue' # eventQueue
         /\ eventsCreated' = eventsCreated
         /\ retryTimers' = retryTimers
         /\ batchTimer' = batchTimer )
          => eventQueue' = <<>>]_vars

(***************************************************************************)
(* C23: verifyDomainOwnership verifies exactly when the resolver answers   *)
(* with some TXT record whose joined and trimmed text equals               *)
(* nylo-verify=<token> up to letter case; every other call fails with a    *)
(* non-empty reason.                                                       *)
(***************************************************************************)
C23_TxtMatchIgnoresCase ==
    txtCheck.outcome # "" =>
        /\ txtCheck.result.verified <=>
              /\ txtCheck.outcome = "answer"
              /\ \E r \in txtCheck.records :
                    r.text = getDnsRecordValue(txtCheck.expectedToken)
        /\ ~txtCheck.result.verified => txtCheck.result.error # ""

(***************************************************************************)
(* C24: GET /api/domains/status changes no verification record; its        *)
(* answer carries the status, verifiedAt and lastCheckedAt of the stored   *)
(* record of the pair, or status unverified with null timestamps when the  *)
(* pair has no record.                                                     *)
(***************************************************************************)
C24_StatusIsReadOnlyProjection ==
    [][statusResp' # statusResp =>
          /\ domainVerifications' = domainVerifications
          /\ tokenCounter' = tokenCounter
          /\ statusResp'.http = 200 =>
                LET r == domainVerifications'[<<statusResp'.domain, statusResp'.customer>>]
                IN  IF r.exists
                    THEN /\ statusResp'.status = r.status
                         /\ statusResp'.verifiedAt = r.verifiedAt
                         /\ statusResp'.lastCheckedAt = r.lastCheckedAt
                    ELSE /\ statusResp'.status = "unverified"
                         /\ statusResp'.verifiedAt = 0
                         /\ statusResp'.lastCheckedAt = 0]_vars

\* the status of a verified pair, asked while the record is verified
C24_Witness ==
    /\ statusResp.http = 200
    /\ statusResp.status = "verified"
    /\ statusResp.verifiedAt > 0
    /\ domainVerifications[<<statusResp.domain, statusResp.customer>>].status = "verified"

\* the status of a pair that has no record
C24_WitnessUnverified ==
    /\ statusResp.http = 200
    /\ statusResp.status = "unverified"
    /\ statusResp.verifiedAt = 0 /\ statusResp.lastCheckedAt = 0
    /\ ~domainVerifications[<<statusResp.domain, statusResp.customer>>].exists

(***************************************************************************)
(* C25: the dedup check and dedupCache.set run in one synchronous step     *)
(* before the handler suspends at the storage call, so no interleaving of  *)
(* /api/track handlers lets two deliveries of one triple both pass the     *)
(* check inside the window: any two acceptances of the same triple, stored *)
(* or still awaiting storage, lie at least DEDUP_WINDOW_MS apart.          *)
(***************************************************************************)
PassedCheck(e) ==
    {[by |-> "stored", n |-> i, at |-> interactions[i].at] :
        i \in {x \in DOMAIN interactions : interactions[x].src = e}}
    \cup
    {[by |-> "handler", n |-> h, at |-> trk[h].at] :
        h \in {x \in Handlers : trk[x].pc = "await" /\ trk[x].events[trk[x].i] = e}}

C25_NoDedupRace ==
    \A e \in Events : \A p, q \in PassedCheck(e) :
        (p # q /\ p.at <= q.at) => q.at - p.at >= DEDUP_WINDOW_MS

\* a second request with the triple arrived while the first was suspended at
\* the storage call, and was skipped
C25_Witness ==
    \E e \in Events :
        /\ trk[1].pc = "await" /\ trk[1].events[trk[1].i] = e
        /\ trk[2].pc = "done" /\ trk[2].events = <<e>>
        /\ trk[2].status = 200 /\ trk[2].processedCount = 0
        /\ win[e].n >= 2
        /\ now < trk[1].at + DEDUP_WINDOW_MS
        /\ Cardinality(PassedCheck(e)) = 1

(***************************************************************************)
(* C25 as stated: a request with the same triple that is handled while the *)
(* first one is suspended at the storage call, inside the window, passes   *)
(* the dedup check as well, so that both events are stored.                *)
(***************************************************************************)
C25_DedupRace ==
    \A e \in Events :
        ( /\ HasRequiredFields(e)
          /\ trk[1].pc = "await" /\ trk[1].events[trk[1].i] = e
          /\ now < trk[1].at + DEDUP_WINDOW_MS
          /\ trk[2].pc = "done" /\ trk[2].events = <<e>> /\ trk[2].status = 200
          /\ ~storageFailed )
            => trk[2].processedCount = 1

(***************************************************************************)
(* C26: whenever the promise chain of initialize comes to the end of its   *)
(* identity step in non-anonymous mode, state.sessionId and state.waiTag   *)
(* are both set, whether the URL carried a token or not, whatever the      *)
(* verification answered and whichever storage tiers can be read or        *)
(* written: a failed verification or unreadable storage ends in the stored *)
(* or a freshly generated identity.                                        *)
(***************************************************************************)
InitializeEnds ==
    /\ ~anonymousMode'
    /\ identPc' = "idle"
    /\ \/ pageLoads' = pageLoads + 1
       \/ identPc = "init"

C26_IdentityAvailable ==
    [][InitializeEnds => (stateId'.sessionId > 0 /\ stateId'.waiTag > 0)]_vars

\* the token was refused, no tier holds an identity and no tier can be
\* written: initialize ended with a fresh identity
C26_Witness ==
    /\ pageLoads = 1 /\ ~anonymousMode
    /\ urlToken # NoId
    /\ identPc = "idle" /\ nyloApi = "normal"
    /\ blocked = Tiers
    /\ \A t \in Tiers : tiers[t].kind # "data"
    /\ idsIssued = 1 /\ lastGen.waiTag = stateId.waiTag
    /\ stateId.sessionId > 0 /\ stateId.waiTag > 0

\* the token was refused and the identity of a readable tier was adopted
C26_WitnessStored ==
    /\ pageLoads = 2 /\ ~anonymousMode
    /\ urlToken # NoId
    /\ identPc = "idle" /\ nyloApi = "normal"
    /\ idsIssued = 1 /\ stateId.waiTag = 1
    /\ tiers["cookie"].kind # "data"

(***************************************************************************)
(* C27: a send that fails while retryCount = r < maxRetries appends its    *)
(* whole batch to retryQueue, schedules a timer 2^r seconds later (1, 2, 4 *)
(* for r = 0, 1, 2) and makes the counter r + 1; a retry timer fires at    *)
(* its due time, moves up to batchSize events from the head of retryQueue  *)
(* to the front of the event queue and calls sendBatch on the result.      *)
(***************************************************************************)
BackoffSeconds(r) == CASE r = 0 -> 1 [] r = 1 -> 2 [] r = 2 -> 4 [] OTHER -> 0

\* the step is the .catch of a fetch below the retry limit
SendFailsBelowLimit(f) ==
    /\ f \in fetches /\ f \notin fetches'
    /\ streak'.n > 0
    /\ retryCount < maxRetries

RetryScheduled(f) ==
    /\ retryQueue' = retryQueue \o f
    /\ retryCount' = retryCount + 1
    /\ \E t \in retryTimers' \ retryTimers :
          /\ t.due = clock + BackoffSeconds(retryCount)
          /\ retryTimers' = retryTimers \cup {t}
    /\ eventQueue' = eventQueue

\* the step is the callback of retry timer t
RetryCallbackRuns(t) == t \in retryTimers /\ t \notin retryTimers'

RetryResent(t) ==
    LET moved == Take(retryQueue, batchSize)
        queue == moved \o eventQueue
    IN  /\ t.due = clock
        /\ retryQueue' = Drop(retryQueue, batchSize)
        /\ Len(moved) > 0 =>
             IF isCircuitBreakerOpen
             THEN eventQueue' = queue /\ fetches' = fetches
             ELSE /\ fetches' = fetches \cup {Take(queue, batchSize)}
                  /\ eventQueue' = Drop(queue, batchSize)
                  /\ moved[1] \in Range(Take(queue, batchSize))

C27_RetryStep ==
    [][ /\ \A f \in fetches : SendFailsBelowLimit(f) => RetryScheduled(f)
        /\ \A t \in retryTimers : RetryCallbackRuns(t) => RetryResent(t) ]_vars

\* an event failed at r = 1, came back through its retry timer, failed again
\* at r = 2 and waits for the timer set 4 s ahead
C27_Witness ==
    /\ retryCount = 3 /\ ~isCircuitBreakerOpen
    /\ \E t \in retryTimers : t.due = clock + 4
    /\ \E e \in PipeEvents :
          /\ delays[e].prev = 2 /\ delays[e].last = 4
          /\ e \in Range(retryQueue)

(***************************************************************************)
(* C28: from the moment the circuit breaker opens until the cooldown of    *)
(* 30 s counted from that moment has elapsed, the breaker is open and no   *)
(* send starts, whatever the responses of the sends that were in flight    *)
(* when it opened.                                                         *)
(***************************************************************************)
C28_BreakerHoldsCooldown ==
    (openedAt # -1 /\ clock < openedAt + COOLDOWN) =>
        /\ isCircuitBreakerOpen
        /\ lastSend.at <= openedAt

(***************************************************************************)
(* C29: a batch transmitted by sendBatch with compression enabled is       *)
(* answered with a success by POST /api/track, and every event of the      *)
(* batch that was queued with a sessionId, eventType and domain has        *)
(* exactly one stored interaction with its own sessionId and domain.       *)
(***************************************************************************)
StoredFor(e) ==
    {i \in DOMAIN wireStored :
        /\ wireStored[i].sessionId = e.sessionId
        /\ wireStored[i].domain = e.domain
        /\ wireStored[i].interactionType = e.eventType
        /\ wireStored[i].timestamp = e.timestamp}

C29_WireCompatible ==
    (wireSent.http # 0 /\ wireSent.events.kind = "object") =>
        /\ wireSent.http = 200
        /\ \A i \in DOMAIN wireSent.batch :
              LET e == wireSent.batch[i]
              IN  (IsSet(e.sessionId) /\ IsSet(e.eventType) /\ IsSet(e.domain))
                      => Cardinality(StoredFor(e)) = 1

(***************************************************************************)
(* C30: the header of a compressed batch holds only values common to every *)
(* event of the batch, so that putting the header's sessionId, userId,     *)
(* waiTag, domain and customerId back on each compressed event gives the   *)
(* batch as it was queued, also when the identity changed between events.  *)
(***************************************************************************)
Reattach(events) ==
    [i \in 1..Len(events.items) |->
        [events.items[i] EXCEPT !.sessionId = events.common.sessionId,
                                !.userId = events.common.userId,
                                !.waiTag = events.common.waiTag,
                                !.domain = events.common.domain,
                                !.customerId = events.common.customerId]]

C30_CompressionLossless ==
    (wireSent.http # 0 /\ wireSent.events.kind = "object") =>
        /\ \A i \in DOMAIN wireSent.batch :
              /\ wireSent.batch[i].sessionId = wireSent.events.common.sessionId
              /\ wireSent.batch[i].userId = wireSent.events.common.userId
              /\ wireSent.batch[i].waiTag = wireSent.events.common.waiTag
              /\ wireSent.batch[i].domain = wireSent.events.common.domain
              /\ wireSent.batch[i].customerId = wireSent.events.common.customerId
        /\ Reattach(wireSent.events) = wireSent.batch

(***************************************************************************)
(* C31: the pipeline is in exactly one of Idle, Sending, Backoff-wait and  *)
(* Circuit-open: at most one batch is in flight, and no batch is in flight *)
(* while a retry wait is pending or while the circuit breaker is open.     *)
(***************************************************************************)
Sending == fetches # {}
BackoffWait == retryTimers # {}
CircuitOpen == isCircuitBreakerOpen

C31_PipelineExclusive ==
    /\ Cardinality(fetches) <= 1
    /\ ~(Sending /\ BackoffWait)
    /\ ~(Sending /\ CircuitOpen)
    /\ ~(BackoffWait /\ CircuitOpen)

(***************************************************************************)
(* C32: a verify-cross-domain-token request that passes the domain gate is *)
(* answered with success and the waiTag and sessionId of the token when    *)
(* the token decodes to JSON with both of them non-empty, and with         *)
(* success:false and no identity for every other token; the request        *)
(* changes nothing the server keeps.                                       *)
(***************************************************************************)
TokenCarriesIdentity(token) ==
    token.raw = "json" /\ token.waiTag # "" /\ token.sessionId # ""

C32_WitnessRefused ==
    /\ enforce /\ tokResp.req.pairWas
    /\ tokResp.http = 200 /\ ~tokResp.success
    /\ tokResp.req.token = JsonToken("", "s1", 0)

(***************************************************************************)
(* C33: a POST /api/track request with a non-empty list of events is       *)
(* answered with a success once every event of the list has been looked    *)
(* at; eventsProcessed starts at 0 and grows by one exactly when a storage *)
(* call of this request succeeds, so that it is the number of events the   *)
(* request stored (incomplete events, duplicates and failed storage calls  *)
(* are not counted), and a failed storage call does not end the loop;      *)
(* totalEvents is the length of the list.                                  *)
(***************************************************************************)
TotalEvents(t) == Len(t.events)

\* handler h takes a new request in this step
Arrives(h) == trk[h].pc # "await" /\ trk'[h] # trk[h]
\* the storage call of handler h settles in this step
Settles(h) == trk[h].pc = "await" /\ trk'[h] # trk[h]

C33_IngestionAccounting ==
    [][\A h \in Handlers :
          /\ Arrives(h) =>
                /\ trk'[h].processedCount = 0
                /\ interactions' = interactions
          /\ Settles(h) =>
                /\ trk'[h].events = trk[h].events
                /\ trk'[h].processedCount - trk[h].processedCount
                      = Len(interactions') - Len(interactions)
                /\ trk'[h].i > trk[h].i
          /\ (trk'[h].pc = "done" /\ TotalEvents(trk'[h]) > 0) =>
                /\ trk'[h].status = 200
                /\ trk'[h].i = TotalEvents(trk'[h]) + 1
                /\ trk'[h].processedCount <= TotalEvents(trk'[h]) ]_vars

\* the storage call of the first event failed and the second event was
\* stored and counted
C33_Witness ==
    \E h \in Handlers :
        /\ trk[h].pc = "done" /\ trk[h].status = 200
        /\ TotalEvents(trk[h]) = 2 /\ trk[h].processedCount = 1
        /\ trk[h].events[1] # trk[h].events[2]
        /\ HasRequiredFields(trk[h].events[1])
        /\ storageFailed
        /\ Len(interactions) = 1 /\ interactions[1].src = trk[h].events[2]
        /\ trackReqs = 1

(***************************************************************************)
(* C34: once the record of a (domain, customer) pair has status verified,  *)
(* no step of any request-verification or verify call, overlapping ones    *)
(* included, changes its status or its verifiedAt.                         *)
(***************************************************************************)
C34_VerifiedIsStable ==
    [][\A p \in Pairs :
          domainVerifications[p].status = "verified" =>
              /\ domainVerifications'[p].status = "verified"
              /\ domainVerifications'[p].verifiedAt = domainVerifications[p].verifiedAt]_vars

(***************************************************************************)
(* C35: an event that sendBatch took from the event queue is, until a      *)
(* successful response acknowledges it, still held by the client: in       *)
(* flight, in retryQueue or back in the event queue.  While the server     *)
(* cannot be reached nothing is acknowledged, so every event created so    *)
(* far is held.                                                            *)
(***************************************************************************)
InFlight == UNION {Range(f) : f \in fetches}
Held == Range(eventQueue) \cup Range(retryQueue) \cup InFlight

C35_NoEventLoss ==
    \A e \in 1..eventsCreated : e \in Held

(***************************************************************************)
(* C36: with isDomainVerified implemented, a verify-cross-domain-token     *)
(* response carries success and an identity only if the (domain,           *)
(* customerId) of the request was verified in storage when it was served;  *)
(* a request without domain or without customerId gets no identity.        *)
(***************************************************************************)
C36_GateCannotBeSkipped ==
    (enforce /\ (tokResp.success \/ tokResp.identity # NoIdentity)) =>
        /\ tokResp.req.domain.name # <<>>
        /\ Truthy(tokResp.req.customerId)
        /\ tokResp.req.pairWas

(***************************************************************************)
(* C37: in every client state in which consent is denied (anonymousMode is *)
(* true), state.waiTag is null, and no step taken while consent is denied  *)
(* writes an identity to storage, the completion of a token verification   *)
(* started before the denial included.                                     *)
(***************************************************************************)
C37_ConsentRespected ==
    [][anonymousMode' =>
          /\ stateId'.waiTag = 0
          /\ anonymousMode => (lastStored' = lastStored /\ idsIssued' = idsIssued)]_vars

(***************************************************************************)
(* C38: a re-delivery of a triple inside the window of its dedup entry is  *)
(* accepted when no interaction was persisted under that key: the storage  *)
(* call of the delivery that wrote the entry failed (and none is still     *)
(* awaited), so the event is not treated as already processed.             *)
(***************************************************************************)
PersistedUnder(key) ==
    \E i \in DOMAIN interactions : DedupKey(interactions[i].src) = key

StoreAwaitedUnder(key, r) ==
    \E g \in Handlers :
        /\ trk[g].pc = "await"
        /\ DedupKey(trk[g].events[trk[g].i]) = key
        /\ ~(g = r.h /\ r.accepted)

C38_DedupOnlyPersisted ==
    \A r \in resubs :
        ( /\ r.t < r.expiry
          /\ ~PersistedUnder(DedupKey(r.e))
          /\ ~StoreAwaitedUnder(DedupKey(r.e), r) )
            => r.accepted

(***************************************************************************)
(* C39: the dedup window is fixed.  Every delivery of a triple made before *)
(* the expiry last written for its key is suppressed, however many came    *)
(* before it, and leaves the entry with that expiry; a delivery at or      *)
(* after the expiry is accepted and starts the next window at its own      *)
(* time.  The entry of a key is always absent or the expiry written by     *)
(* the last accepted delivery.                                             *)
(***************************************************************************)
C39_FixedWindow ==
    /\ \A k \in DedupKeys : dedupCache[k] \in {-1, lastExpiry[k]}
    /\ \A r \in resubs :
         IF r.t < r.expiry
         THEN ~r.accepted /\ ~r.swept /\ r.newExpiry = r.expiry
         ELSE r.accepted /\ r.newExpiry = r.t + DEDUP_WINDOW_MS

\* the third delivery in one window is suppressed like the second
C39_Witness ==
    \E r \in resubs :
        /\ r.t < r.expiry /\ ~r.accepted
        /\ win[r.e].n >= 3
        /\ dedupCache[DedupKey(r.e)] = r.expiry

\* a triple is accepted again in the window after the one it was suppressed in
C39_WitnessNextWindow ==
    \E r \in resubs :
        /\ r.t >= r.expiry /\ r.accepted /\ ~r.swept
        /\ dedupCache[DedupKey(r.e)] = r.t + DEDUP_WINDOW_MS

(***************************************************************************)
(* C40: the sweep is invisible to clients.  A step of cleanupDedupCache    *)
(* removes only entries whose expiry has passed and changes no other       *)
(* entry; and in every state, for every key and every time from now on,    *)
(* the check of a delivery against the swept cache gives the answer it     *)
(* gives against the cache that was never swept (the expiry last written   *)
(* for each key).                                                          *)
(***************************************************************************)
SweepStep == dedupCache' # dedupCache /\ trk' = trk

SameDecisions(cache, unswept, from) ==
    \A k \in DedupKeys : \A t \in from..(MaxTime + 1) :
        IsDuplicate(cache, k, t) = IsDuplicate(unswept, k, t)

C40_SweepInvisible ==
    [][/\ SweepStep =>
            \A k \in DedupKeys :
                dedupCache'[k] # dedupCache[k] =>
                    /\ dedupCache[k] # -1 /\ now > dedupCache[k]
                    /\ dedupCache'[k] = -1
       /\ SameDecisions(dedupCache', lastExpiry', now')]_vars

\* the sweep has removed the expired entry of one key and kept the live
\* entry of another
C40_Witness ==
    \E k1, k2 \in DedupKeys :
        /\ dedupCache[k1] = -1 /\ lastExpiry[k1] # -1 /\ now > lastExpiry[k1]
        /\ dedupCache[k2] # -1 /\ now <= dedupCache[k2]

=============================================================================
